---------------------------- MODULE Spec2Model ----------------------------
(***************************************************************************)
(* Model of @codemirror/collab: the collab state field, receiveUpdates,    *)
(* sendableUpdates and rebaseUpdates, driven by the authority of the       *)
(* rebasing test harness (send / receive over one shared update log).      *)
(*                                                                         *)
(* A document is a sequence of characters (small integers).  A change set  *)
(* is a sequence of sections <<len, ins, text>>: ins = -1 keeps len        *)
(* characters, ins >= 0 replaces len characters by text (Len(text) = ins). *)
(* This is the section array of a ChangeSet of @codemirror/state with the  *)
(* inserted texts stored in the section they belong to.                    *)
(***************************************************************************)
EXTENDS Integers, Sequences, FiniteSets, TLC

Min(x, y) == IF x < y THEN x ELSE y

(***************************************************************************)
(* Change sets (ChangeDesc / ChangeSet of the host text engine).           *)
(***************************************************************************)

\* The value of `changes` before any foreign update was seen (JS null).
Null == <<<<-1, -2, <<>>>>>>

\* The outcome of an operation that throws (mismatched lengths, bad range).
Err == <<<<-2, -2, <<>>>>>>

IsErr(cs) == cs = Err

\* ChangeDesc.length: the length of the document the set applies to.
RECURSIVE CsLength(_)
CsLength(cs) == IF cs = <<>> THEN 0 ELSE cs[1][1] + CsLength(Tail(cs))

\* ChangeDesc.newLength: the length of the document the set produces.
RECURSIVE CsNewLength(_)
CsNewLength(cs) ==
  IF cs = <<>> THEN 0
  ELSE (IF cs[1][2] < 0 THEN cs[1][1] ELSE cs[1][2]) + CsNewLength(Tail(cs))

\* ChangeDesc.empty
CsEmpty(cs) == Len(cs) = 0 \/ (Len(cs) = 1 /\ cs[1][2] < 0)

\* ChangeSet.empty(length)
EmptySet(n) == IF n = 0 THEN <<>> ELSE <<<<n, -1, <<>>>>>>

\* addSection together with addInsert: the inserted text travels with the
\* section it is recorded for.
AddSection(sections, len, ins, text, forceJoin) ==
  IF len = 0 /\ ins <= 0 THEN sections
  ELSE LET n == Len(sections) IN
    IF n > 0 /\ ins <= 0 /\ ins = sections[n][2]
      THEN [sections EXCEPT ![n] = <<@[1] + len, @[2], @[3]>>]
    ELSE IF n > 0 /\ len = 0 /\ sections[n][1] = 0
      THEN [sections EXCEPT ![n] = <<@[1], @[2] + ins, @[3] \o text>>]
    ELSE IF forceJoin /\ n > 0
      THEN [sections EXCEPT ![n] = <<@[1] + len, @[2] + ins, @[3] \o text>>]
    ELSE Append(sections, <<len, ins, text>>)

\* SectionIter: i counts the sections read so far, ins = -2 when done.
IterNext(set, it) ==
  IF it.i < Len(set)
    THEN [i |-> it.i + 1, len |-> set[it.i + 1][1], ins |-> set[it.i + 1][2], off |-> 0]
    ELSE [i |-> it.i, len |-> 0, ins |-> -2, off |-> 0]

IterInit(set) == IterNext(set, [i |-> 0, len |-> 0, ins |-> -2, off |-> 0])

IterDone(it) == it.ins = -2

IterLen2(it) == IF it.ins < 0 THEN it.len ELSE it.ins

IterText(set, it) == IF it.i >= 1 /\ it.ins >= 0 THEN set[it.i][3] ELSE <<>>

IterTextBit(set, it, len) ==
  LET t == IterText(set, it) IN SubSeq(t, it.off + 1, Min(Len(t), it.off + len))

IterForward(set, it, len) ==
  IF len = it.len THEN IterNext(set, it)
  ELSE [it EXCEPT !.len = @ - len, !.off = @ + len]

IterForward2(set, it, len) ==
  IF it.ins = -1 THEN IterForward(set, it, len)
  ELSE IF len = it.ins THEN IterNext(set, it)
  ELSE [it EXCEPT !.ins = @ - len, !.off = @ + len]

\* mapSet, the loop inside its second branch: walk A across the range a
\* change of B covers, emitting the inserts of A that lie wholly inside it.
\* (With A exhausted inside the range the loop makes no progress; the model
\* reports that as an error.)
CoverStep(setA, st) ==
  LET a == st.a
      piece == Min(a.len, st.len)
      emit == a.ins >= 0 /\ st.inserted < a.i /\ a.len <= piece
  IN [sections |-> IF emit THEN AddSection(st.sections, 0, a.ins, IterText(setA, a), FALSE)
                           ELSE st.sections,
      a |-> IterForward(setA, a, piece),
      inserted |-> IF emit THEN a.i ELSE st.inserted,
      len |-> st.len - piece,
      err |-> FALSE]

RECURSIVE MapCover(_, _)
MapCover(setA, st) ==
  IF st.len = 0 THEN st
  ELSE IF IterDone(st.a) THEN [st EXCEPT !.err = TRUE]
  ELSE MapCover(setA, CoverStep(setA, st))

\* mapSet, the loop inside its third branch: how much of a change of A
\* survives up to the next non-deletion change of B.
ScanStops(st) == st.left = 0 \/ ~(st.b.ins = -1 \/ (st.b.ins = 0 /\ st.b.len < st.left))

ScanStep(setB, st) ==
  LET b == st.b IN
  IF b.ins = -1
    THEN LET piece == Min(st.left, b.len)
         IN [len |-> st.len + piece, left |-> st.left - piece, b |-> IterForward(setB, b, piece)]
    ELSE [len |-> st.len, left |-> st.left - b.len, b |-> IterNext(setB, b)]

RECURSIVE MapScan(_, _)
MapScan(setB, st) == IF ScanStops(st) THEN st ELSE MapScan(setB, ScanStep(setB, st))

\* mapSet, its second branch once the walk across B's change is done.
AfterCover(setB, b, r) ==
  [sections |-> r.sections, a |-> r.a, b |-> IterNext(setB, b),
   inserted |-> r.inserted, done |-> r.err, err |-> r.err]

\* mapSet, its third branch once the surviving length of A's change is known.
AfterScan(setA, st, r) ==
  [sections |-> AddSection(st.sections, r.len,
                           IF st.inserted < st.a.i THEN st.a.ins ELSE 0,
                           IF st.inserted < st.a.i THEN IterText(setA, st.a) ELSE <<>>,
                           FALSE),
   a |-> IterForward(setA, st.a, st.a.len - r.left), b |-> r.b,
   inserted |-> st.a.i, done |-> FALSE, err |-> FALSE]

\* mapSet, one turn of its loop.  st.done is set when it returns, st.err when
\* it throws "Mismatched change set lengths".
MapStep(setA, setB, before, st) ==
  LET a == st.a
      b == st.b
  IN
  IF (IterDone(a) /\ b.len # 0) \/ (IterDone(b) /\ a.len # 0)
    THEN [st EXCEPT !.done = TRUE, !.err = TRUE]
  ELSE IF a.ins = -1 /\ b.ins = -1 THEN
    [st EXCEPT !.sections = AddSection(@, Min(a.len, b.len), -1, <<>>, FALSE),
               !.a = IterForward(setA, a, Min(a.len, b.len)),
               !.b = IterForward(setB, b, Min(a.len, b.len))]
  ELSE IF b.ins >= 0 /\ (a.ins < 0 \/ st.inserted = a.i
                         \/ (a.off = 0 /\ (b.len < a.len \/ (b.len = a.len /\ ~before)))) THEN
    AfterCover(setB, b,
               MapCover(setA, [sections |-> AddSection(st.sections, b.ins, -1, <<>>, FALSE),
                               a |-> a, inserted |-> st.inserted, len |-> b.len,
                               err |-> FALSE]))
  ELSE IF a.ins >= 0 THEN
    AfterScan(setA, st, MapScan(setB, [len |-> 0, left |-> a.len, b |-> b]))
  ELSE IF IterDone(a) /\ IterDone(b) THEN [st EXCEPT !.done = TRUE]
  ELSE [st EXCEPT !.done = TRUE, !.err = TRUE]

RECURSIVE MapLoop(_, _, _, _)
MapLoop(setA, setB, before, st) ==
  IF st.done THEN st ELSE MapLoop(setA, setB, before, MapStep(setA, setB, before, st))

MapResult(st) == IF st.err THEN Err ELSE st.sections

\* mapSet(setA, setB, before): setA moved over setB, both starting at the
\* same document.
MapSet(setA, setB, before) ==
  MapResult(MapLoop(setA, setB, before,
                    [sections |-> <<>>, a |-> IterInit(setA), b |-> IterInit(setB),
                     inserted |-> -1, done |-> FALSE, err |-> FALSE]))

\* ChangeSet.map(other, before)
CsMap(cs, other, before) ==
  IF IsErr(cs) \/ IsErr(other) THEN Err
  ELSE IF CsEmpty(other) THEN cs
  ELSE MapSet(cs, other, before)

\* composeSets, the last branch of its loop once the section is added.
AfterSection(setA, setB, st, len, next) ==
  [sections |-> next,
   a |-> IterForward2(setA, st.a, len),
   b |-> IterForward(setB, st.b, len),
   open |-> (st.a.ins > len \/ (st.b.ins >= 0 /\ st.b.len > len))
              /\ (st.open \/ Len(next) > Len(st.sections)),
   done |-> FALSE, err |-> FALSE]

\* composeSets, one turn of its loop.
ComposeStep(setA, setB, st) ==
  LET a == st.a
      b == st.b
      open == st.open
      len == Min(IterLen2(a), b.len)
      insB == IF b.ins = -1 THEN -1 ELSE IF b.off # 0 THEN 0 ELSE b.ins
  IN
  IF IterDone(a) /\ IterDone(b) THEN [st EXCEPT !.done = TRUE]
  ELSE IF a.ins = 0 THEN
    [st EXCEPT !.sections = AddSection(@, a.len, 0, <<>>, open), !.a = IterNext(setA, a)]
  ELSE IF b.len = 0 /\ ~IterDone(b) THEN
    [st EXCEPT !.sections = AddSection(@, 0, b.ins, IterText(setB, b), open),
               !.b = IterNext(setB, b)]
  ELSE IF IterDone(a) \/ IterDone(b) THEN [st EXCEPT !.done = TRUE, !.err = TRUE]
  ELSE AfterSection(setA, setB, st, len,
         IF a.ins = -1
           THEN AddSection(st.sections, len, insB,
                           IF insB > 0 THEN IterText(setB, b) ELSE <<>>, open)
         ELSE IF b.ins = -1
           THEN AddSection(st.sections, IF a.off # 0 THEN 0 ELSE a.len, len,
                           IterTextBit(setA, a, len), open)
         ELSE AddSection(st.sections, IF a.off # 0 THEN 0 ELSE a.len,
                         IF b.off # 0 THEN 0 ELSE b.ins,
                         IF b.off # 0 THEN <<>> ELSE IterText(setB, b), open))

RECURSIVE ComposeLoop(_, _, _)
ComposeLoop(setA, setB, st) ==
  IF st.done THEN st ELSE ComposeLoop(setA, setB, ComposeStep(setA, setB, st))

\* composeSets(setA, setB): setA followed by setB.
ComposeSets(setA, setB) ==
  MapResult(ComposeLoop(setA, setB,
                        [sections |-> <<>>, a |-> IterInit(setA), b |-> IterInit(setB),
                         open |-> FALSE, done |-> FALSE, err |-> FALSE]))

\* ChangeSet.compose(other)
CsCompose(cs, other) ==
  IF IsErr(cs) \/ IsErr(other) THEN Err
  ELSE IF CsEmpty(cs) THEN other
  ELSE IF CsEmpty(other) THEN cs
  ELSE ComposeSets(cs, other)

\* ChangeSet.apply(doc): throws when the set was made for another length.
RECURSIVE ApplyFrom(_, _, _)
ApplyFrom(cs, doc, pos) ==
  IF cs = <<>> THEN <<>>
  ELSE LET s == cs[1] IN
    (IF s[2] < 0 THEN SubSeq(doc, pos + 1, pos + s[1]) ELSE s[3])
      \o ApplyFrom(Tail(cs), doc, pos + s[1])

DocErr == <<-1>>

CsApply(cs, doc) ==
  IF IsErr(cs) \/ doc = DocErr \/ CsLength(cs) # Len(doc) THEN DocErr
  ELSE ApplyFrom(cs, doc, 0)


\* ChangeSet.of({from, to, insert}, length): one replaced range.
CsOf(from, to, text, length) ==
  IF from > to \/ from < 0 \/ to > length THEN Err
  ELSE IF from = to /\ text = <<>> THEN EmptySet(length)
  ELSE AddSection(AddSection(AddSection(<<>>, from, -1, <<>>, FALSE),
                             to - from, Len(text), text, FALSE),
                  length - to, -1, <<>>, FALSE)

\* The ChangeDesc of a change set: the sections without the inserted text.
CsDesc(cs) == IF IsErr(cs) THEN Err ELSE [k \in 1..Len(cs) |-> <<cs[k][1], cs[k][2], <<>>>>]

\* ChangeDesc.mapDesc(other, before)
CsMapDesc(cs, other, before) ==
  IF IsErr(cs) \/ IsErr(other) THEN Err
  ELSE IF CsEmpty(other) THEN cs
  ELSE CsDesc(MapSet(cs, other, before))

\* ChangeDesc.composeDesc(other)
CsComposeDesc(cs, other) ==
  IF IsErr(cs) \/ IsErr(other) THEN Err
  ELSE IF CsEmpty(cs) THEN other
  ELSE IF CsEmpty(other) THEN cs
  ELSE CsDesc(ComposeSets(cs, other))

\* ChangeDesc.mapPos(pos, assoc), one section of its loop; st.res is the
\* position it returns there, or -2 to go on.
PosStep(cs, pos, assoc, st) ==
  LET len == cs[st.k][1]
      ins == cs[st.k][2]
      endA == st.posA + len
  IN IF ins < 0
       THEN IF endA > pos
              THEN [st EXCEPT !.res = st.posB + (pos - st.posA)]
              ELSE [k |-> st.k + 1, posA |-> endA, posB |-> st.posB + len, res |-> -2]
     ELSE IF endA > pos \/ (endA = pos /\ assoc < 0 /\ len = 0)
       THEN [st EXCEPT !.res = IF pos = st.posA \/ assoc < 0 THEN st.posB ELSE st.posB + ins]
     ELSE [k |-> st.k + 1, posA |-> endA, posB |-> st.posB + ins, res |-> -2]

RECURSIVE MapPosLoop(_, _, _, _)
MapPosLoop(cs, pos, assoc, st) ==
  IF st.res # -2 \/ st.k > Len(cs) THEN st
  ELSE MapPosLoop(cs, pos, assoc, PosStep(cs, pos, assoc, st))

\* ChangeDesc.mapPos(pos, assoc); -1 stands for the RangeError it throws.
PosResult(pos, st) ==
  IF st.res # -2 THEN st.res
  ELSE IF pos > st.posA THEN -1 ELSE st.posB

MapPos(cs, pos, assoc) ==
  PosResult(pos, MapPosLoop(cs, pos, assoc, [k |-> 1, posA |-> 0, posB |-> 0, res |-> -2]))

(***************************************************************************)
(* Shared effects: the addMark effect of the shared-effects test, a mark   *)
(* <<from, to, id>>.                                                       *)
(***************************************************************************)

EffErr == <<<<-1, -1, -1>>>>

\* Mark.map raising an error when the range collapses.
MarkNewStrict(from, to, id) ==
  IF from < 0 \/ to < 0 \/ from >= to THEN EffErr
  ELSE <<<<from, to, id>>>>

\* Mark.map: the mapped mark, or <<>> (undefined) when the range collapses.
MarkNew(from, to, id) ==
  IF from < 0 \/ to < 0 THEN EffErr
  ELSE IF from >= to THEN <<>>
  ELSE <<<<from, to, id>>>>

MarkMap(m, mapping) == MarkNew(MapPos(mapping, m[1], 1), MapPos(mapping, m[2], -1), m[3])

\* StateEffect.mapEffects(effects, mapping), its loop: the mapped effects
\* so far, EffErr once a position was out of range.
PushMapped(result, mapped) == IF mapped = EffErr THEN EffErr ELSE result \o mapped

RECURSIVE MapEffectsLoop(_, _, _, _)
MapEffectsLoop(effects, mapping, k, result) ==
  IF k > Len(effects) \/ result = EffErr THEN result
  ELSE MapEffectsLoop(effects, mapping, k + 1,
                      PushMapped(result, MarkMap(effects[k], mapping)))

MapEffects(effects, mapping) ==
  IF effects = <<>> THEN effects
  ELSE IF effects = EffErr \/ IsErr(mapping) THEN EffErr
  ELSE MapEffectsLoop(effects, mapping, 1, <<>>)

(***************************************************************************)
(* The collab extension.                                                   *)
(***************************************************************************)

\* An update without an origin (what rebaseUpdates builds).
NoOrigin == 0

Update(changes, effects, clientID) ==
  [changes |-> changes, effects |-> effects, clientID |-> clientID, origin |-> NoOrigin]

LocalUpdate(origin, changes, effects, clientID) ==
  [changes |-> changes, effects |-> effects, clientID |-> clientID, origin |-> origin]

CollabState(version, unconfirmed) == [version |-> version, unconfirmed |-> unconfirmed]

\* ReceiveBranch with every update of the batch taken as foreign.
ReceiveBranchAllForeign(update, unconfirmed, st, mapped) ==
  [changes |-> IF st.changes # Null THEN CsCompose(st.changes, update.changes)
                                    ELSE update.changes,
   effects |-> mapped \o update.effects,
   own |-> st.own]

\* ReceiveBranch that leaves `changes` as it is on an own echo.
ReceiveBranchUnmapped(update, unconfirmed, st, mapped) ==
  IF st.own < Len(unconfirmed) /\ unconfirmed[st.own + 1].clientID = update.clientID
    THEN [changes |-> st.changes, effects |-> mapped, own |-> st.own + 1]
    ELSE [changes |-> IF st.changes # Null THEN CsCompose(st.changes, update.changes)
                                           ELSE update.changes,
          effects |-> mapped \o update.effects,
          own |-> st.own]

\* ReceiveBranch with `changes` starting as the identity when the first
\* update of the batch is an own echo.
ReceiveBranchFromIdentity(update, unconfirmed, st, mapped) ==
  IF st.own < Len(unconfirmed) /\ unconfirmed[st.own + 1].clientID = update.clientID
    THEN [changes |-> CsMap(IF st.changes # Null THEN st.changes
                            ELSE EmptySet(CsLength(unconfirmed[st.own + 1].changes)),
                            unconfirmed[st.own + 1].changes, TRUE),
          effects |-> mapped,
          own |-> st.own + 1]
    ELSE [changes |-> IF st.changes # Null THEN CsCompose(st.changes, update.changes)
                                           ELSE update.changes,
          effects |-> mapped \o update.effects,
          own |-> st.own]

\* receiveUpdates, the body of the loop over the batch, for one update;
\* mapped is StateEffect.mapEffects(effects, update.changes), which both
\* branches compute.
ReceiveBranch(update, unconfirmed, st, mapped) ==
  IF st.own < Len(unconfirmed) /\ unconfirmed[st.own + 1].clientID = update.clientID
    THEN [changes |-> IF st.changes # Null
                        THEN CsMap(st.changes, unconfirmed[st.own + 1].changes, TRUE)
                        ELSE st.changes,
          effects |-> mapped,
          own |-> st.own + 1]
    ELSE [changes |-> IF st.changes # Null THEN CsCompose(st.changes, update.changes)
                                           ELSE update.changes,
          effects |-> mapped \o update.effects,
          own |-> st.own]

ReceiveStep(update, unconfirmed, st) ==
  ReceiveBranch(update, unconfirmed, st, MapEffects(st.effects, update.changes))

\* receiveUpdates, the loop over the batch.
RECURSIVE ReceiveLoop(_, _, _, _)
ReceiveLoop(updates, unconfirmed, k, st) ==
  IF k > Len(updates) THEN st
  ELSE ReceiveLoop(updates, unconfirmed, k + 1, ReceiveStep(updates[k], unconfirmed, st))

\* RebasedLocal with the local insert put before a foreign insert at the
\* same position.
RebasedLocalFirst(update, changes, next, clientID) ==
  LocalUpdate(update.origin, CsMap(update.changes, changes, TRUE),
              MapEffects(update.effects, next), clientID)

\* RebasedLocal with the effects mapped over `changes` as it was when the
\* update's change script was mapped over it.
RebasedLocalEffectsEarly(update, changes, next, clientID) ==
  LocalUpdate(update.origin, CsMap(update.changes, changes, FALSE),
              MapEffects(update.effects, changes), clientID)

\* RebasedLocal building the rebased update without its origin.
RebasedLocalNoOrigin(update, changes, next, clientID) ==
  LocalUpdate(NoOrigin, CsMap(update.changes, changes, FALSE),
              MapEffects(update.effects, next), clientID)

\* receiveUpdates, the callback that rebases one unconfirmed update: next is
\* `changes` after changes.map(update.changes, true).
RebasedLocal(update, changes, next, clientID) ==
  LocalUpdate(update.origin, CsMap(update.changes, changes, FALSE),
              MapEffects(update.effects, next), clientID)

\* RebaseOne with the rebased update put at the front of the new queue.
RebaseOneAtFront(st, update, next, clientID) ==
  [unconfirmed |-> <<RebasedLocal(update, st.changes, next, clientID)>> \o st.unconfirmed,
   changes |-> next]

RebaseOne(st, update, next, clientID) ==
  [unconfirmed |-> Append(st.unconfirmed, RebasedLocal(update, st.changes, next, clientID)),
   changes |-> next]

\* receiveUpdates, rebasing the remaining unconfirmed updates over `changes`;
\* the callback also moves `changes` over each of them.
RECURSIVE RebaseUnconfirmed(_, _, _, _)
RebaseUnconfirmed(unconfirmed, k, clientID, st) ==
  IF k > Len(unconfirmed) THEN st
  ELSE RebaseUnconfirmed(unconfirmed, k + 1, clientID,
         RebaseOne(st, unconfirmed[k], CsMap(st.changes, unconfirmed[k].changes, TRUE),
                   clientID))

\* unconfirmed.reduce((ch, u) => ch.compose(u.changes), ChangeSet.empty(...))
RECURSIVE ComposeAll(_, _, _)
ComposeAll(unconfirmed, k, ch) ==
  IF k > Len(unconfirmed) THEN ch
  ELSE ComposeAll(unconfirmed, k + 1, CsCompose(ch, unconfirmed[k].changes))

\* ReceiveRebase with the slice of `unconfirmed` starting one entry late.
ReceiveRebaseLate(collab, clientID, r) ==
  IF r.own + 1 < Len(collab.unconfirmed) /\ r.changes # Null
    THEN RebaseUnconfirmed(SubSeq(collab.unconfirmed, r.own + 2, Len(collab.unconfirmed)),
                           1, clientID, [unconfirmed |-> <<>>, changes |-> r.changes])
    ELSE [unconfirmed |-> SubSeq(collab.unconfirmed, r.own + 2, Len(collab.unconfirmed)),
          changes |-> r.changes]

\* receiveUpdates, from `if (own)` to the mapping of the unconfirmed updates:
\* r is what the loop over the batch left.
ReceiveRebase(collab, clientID, r) ==
  IF r.own < Len(collab.unconfirmed) /\ r.changes # Null
    THEN RebaseUnconfirmed(SubSeq(collab.unconfirmed, r.own + 1, Len(collab.unconfirmed)),
                           1, clientID, [unconfirmed |-> <<>>, changes |-> r.changes])
    ELSE [unconfirmed |-> SubSeq(collab.unconfirmed, r.own + 1, Len(collab.unconfirmed)),
          changes |-> r.changes]

\* ReceiveEffects leaving the effects where the batch put them.
ReceiveEffectsUnmapped(effects, unconfirmed) == effects

\* receiveUpdates, the effects moved over the composed unconfirmed changes.
ReceiveEffects(effects, unconfirmed) ==
  IF unconfirmed # <<>> /\ effects # <<>>
    THEN MapEffects(effects,
                    ComposeAll(unconfirmed, 1, EmptySet(CsLength(unconfirmed[1].changes))))
    ELSE effects

\* What a transaction spec says about undo history, remote origin and
\* change filters.  A spec that says nothing gives PlainTags.
Tags(addToHistory, remote, filter) ==
  [addToHistory |-> addToHistory, remote |-> remote, filter |-> filter]

PlainTags == Tags(TRUE, FALSE, TRUE)

\* ReceiveTransaction without `filter: false`.
ReceiveTransactionFiltered(version, m, effects) ==
  IF m.changes = Null
    THEN [collab |-> CollabState(version, m.unconfirmed), changes |-> Null,
          effects |-> <<>>, remote |-> FALSE, tags |-> PlainTags]
    ELSE [collab |-> CollabState(version, m.unconfirmed), changes |-> m.changes,
          effects |-> effects, remote |-> TRUE, tags |-> Tags(FALSE, TRUE, TRUE)]

\* receiveUpdates, the transaction built at its end.
ReceiveTransaction(version, m, effects) ==
  IF m.changes = Null
    THEN [collab |-> CollabState(version, m.unconfirmed), changes |-> Null,
          effects |-> <<>>, remote |-> FALSE, tags |-> PlainTags]
    ELSE [collab |-> CollabState(version, m.unconfirmed), changes |-> m.changes,
          effects |-> effects, remote |-> TRUE, tags |-> Tags(FALSE, TRUE, FALSE)]

ReceiveFinish(version, m, effects) ==
  ReceiveTransaction(version, m, ReceiveEffects(effects, m.unconfirmed))

ReceiveAfterLoop(collab, clientID, version, r) ==
  ReceiveFinish(version, ReceiveRebase(collab, clientID, r), r.effects)

\* ReceiveUpdates with a version that counts the foreign updates only.
ReceiveUpdatesForeignVersion(collab, clientID, updates) ==
  ReceiveAfterLoop(collab, clientID,
                   collab.version
                     + Len(SelectSeq(updates, LAMBDA u : u.clientID # clientID)),
                   ReceiveLoop(updates, collab.unconfirmed, 1,
                               [changes |-> Null, effects |-> <<>>, own |-> 0]))

\* receiveUpdates(state, updates): the transaction it returns, as the new
\* collab state it carries and the changes (Null: none) and effects it has.
ReceiveUpdates(collab, clientID, updates) ==
  ReceiveAfterLoop(collab, clientID, collab.version + Len(updates),
                   ReceiveLoop(updates, collab.unconfirmed, 1,
                               [changes |-> Null, effects |-> <<>>, own |-> 0]))

\* sendableUpdates(state)
SendableUpdates(collab) == collab.unconfirmed

\* getSyncedVersion(state)
GetSyncedVersion(collab) == collab.version

\* SkipStep that takes no entry of `over` for an accepted copy.
SkipStepNever(update, updates, st) ==
  [changes |-> IF st.changes # Null THEN CsComposeDesc(st.changes, update.changes)
                                    ELSE update.changes,
   skip |-> st.skip]

\* SkipStep with `changes` mapped over the accepted copy of the update.
SkipStepOverAccepted(update, updates, st) ==
  IF st.skip < Len(updates) /\ updates[st.skip + 1].clientID = update.clientID
    THEN [changes |-> IF st.changes # Null
                        THEN CsMapDesc(st.changes, update.changes, TRUE)
                        ELSE st.changes,
          skip |-> st.skip + 1]
    ELSE [changes |-> IF st.changes # Null THEN CsComposeDesc(st.changes, update.changes)
                                           ELSE update.changes,
          skip |-> st.skip]

\* SkipStep that skips the submitted update and folds its accepted copy into
\* `changes` as well.
SkipStepFolded(update, updates, st) ==
  [changes |-> IF st.changes # Null THEN CsComposeDesc(st.changes, update.changes)
                                    ELSE update.changes,
   skip |-> IF st.skip < Len(updates) /\ updates[st.skip + 1].clientID = update.clientID
              THEN st.skip + 1 ELSE st.skip]

\* rebaseUpdates, the body of the loop over `over`, for one accepted update.
SkipStep(update, updates, st) ==
  IF st.skip < Len(updates) /\ updates[st.skip + 1].clientID = update.clientID
    THEN [changes |-> IF st.changes # Null
                        THEN CsMapDesc(st.changes, updates[st.skip + 1].changes, TRUE)
                        ELSE st.changes,
          skip |-> st.skip + 1]
    ELSE [changes |-> IF st.changes # Null THEN CsComposeDesc(st.changes, update.changes)
                                           ELSE update.changes,
          skip |-> st.skip]

\* rebaseUpdates, the loop over `over`.
RECURSIVE RebaseSkip(_, _, _, _)
RebaseSkip(updates, over, k, st) ==
  IF k > Len(over) THEN st
  ELSE RebaseSkip(updates, over, k + 1, SkipStep(over[k], updates, st))

\* RebasedUpdate that leaves the change script as it was submitted.
RebasedUpdateUnmapped(update, changes, next) ==
  Update(update.changes, MapEffects(update.effects, next), update.clientID)

\* RebasedUpdate with the submitted insert put before an accepted insert at
\* the same position.
RebasedUpdateLocalFirst(update, changes, next) ==
  Update(CsMap(update.changes, changes, TRUE), MapEffects(update.effects, next),
         update.clientID)

\* rebaseUpdates, the callback that rebases one update: next is `changes`
\* after changes.mapDesc(update.changes, true).
RebasedUpdate(update, changes, next) ==
  Update(CsMap(update.changes, changes, FALSE), MapEffects(update.effects, next),
         update.clientID)

\* RebaseMapOne putting the rebased update at the front of the result.
RebaseMapOneAtFront(st, update, next) ==
  [updates |-> <<RebasedUpdate(update, st.changes, next)>> \o st.updates,
   changes |-> next]

RebaseMapOne(st, update, next) ==
  [updates |-> Append(st.updates, RebasedUpdate(update, st.changes, next)),
   changes |-> next]

\* rebaseUpdates, mapping the remaining updates over `changes`.
RECURSIVE RebaseMap(_, _, _)
RebaseMap(updates, k, st) ==
  IF k > Len(updates) THEN st
  ELSE RebaseMap(updates, k + 1,
                 RebaseMapOne(st, updates[k],
                              CsMapDesc(st.changes, updates[k].changes, TRUE)))

\* RebaseAfterSkip without `if (skip) updates = updates.slice(skip)`.
RebaseAfterSkipUnsliced(updates, r) ==
  IF r.changes = Null
    THEN updates
    ELSE RebaseMap(updates, 1, [updates |-> <<>>, changes |-> r.changes]).updates

\* rebaseUpdates, from `if (skip)` on: r is what the loop over `over` left.
RebaseAfterSkip(updates, r) ==
  IF r.changes = Null
    THEN SubSeq(updates, r.skip + 1, Len(updates))
    ELSE RebaseMap(SubSeq(updates, r.skip + 1, Len(updates)), 1,
                   [updates |-> <<>>, changes |-> r.changes]).updates

\* RebaseUpdates that builds new updates when `over` is empty.
RebaseUpdatesRebuilt(updates, over) ==
  IF updates = <<>> THEN updates
  ELSE IF over = <<>>
    THEN RebaseMap(updates, 1, [updates |-> <<>>,
                                changes |-> EmptySet(CsLength(updates[1].changes))]).updates
  ELSE RebaseAfterSkip(updates, RebaseSkip(updates, over, 1, [changes |-> Null, skip |-> 0]))

\* rebaseUpdates(updates, over)
RebaseUpdates(updates, over) ==
  IF over = <<>> \/ updates = <<>> THEN updates
  ELSE RebaseAfterSkip(updates, RebaseSkip(updates, over, 1, [changes |-> Null, skip |-> 0]))

(***************************************************************************)
(* The protocol: peers editing locally, an authority keeping the update    *)
(* log and the server document, send and receive as the rebasing test      *)
(* drives them.                                                            *)
(***************************************************************************)

\* Bounds of the model.
NPeers == 2
DocLen == 1
MaxEdits == 3
MaxDel == 1
MaxCallEdits == 2
MaxSharedEdits == 2
MaxMarkLen == 2
MaxMarkEdits == 3
MaxGenerated == 2

\* startVersion of the collab configuration.
StartVersion == 0

Peers == 1..NPeers

\* The start document: DocLen distinct characters.
StartDoc == [i \in 1..DocLen |-> i]

VARIABLES
  updates,     \* the authority's log of accepted updates
  serverDoc,   \* the authority's document
  doc,         \* doc[p]: the document of peer p's editor state
  collab,      \* collab[p]: the CollabState of peer p's editor state
  emitted,     \* emitted[p]: the number of local transactions peer p made
  typed,       \* history: the characters local transactions inserted
  deleted,     \* history: the characters local transactions deleted
  folded,      \* history: folded[p], the number of log entries p received
  last,        \* history: the last step, the state it started from, its result
  threw,       \* TRUE once a step has thrown an exception
  marks,       \* marks[p]: the marks field of peer p's editor state
  ext,         \* ext[p]: the extension value collab(config) made for peer p
  facet        \* facet[p]: the collabConfig facet of peer p's editor state

vars ==
  <<updates, serverDoc, doc, collab, emitted, typed, deleted, folded, last, threw, marks,
    ext, facet>>

\* clientID: null as any, the default of the configuration.
NoID == 0

\* The client ID "".
EmptyID == -1

\* Math.floor(Math.random() * 1e9).toString(36): the k-th value it may
\* give for peer p.
Generated(p, k) == 100 * p + k

GeneratedIDs(p) == {Generated(p, k) : k \in 1..MaxGenerated}

\* collab(config): the configuration the extension provides.
Collab(clientID, random) == [generatedID |-> random, clientID |-> clientID]

\* collabConfig.combine falling back to "" whenever no clientID is
\* configured.
CombineNoGenerated(configs) ==
  [clientID |-> IF configs = <<>> \/ configs[1].clientID = NoID THEN EmptyID
                ELSE configs[1].clientID]

\* collabConfig.combine, for the configurations of at most one collab
\* extension.
Combine(configs) ==
  [clientID |-> IF configs = <<>> THEN EmptyID
                ELSE IF configs[1].clientID = NoID THEN configs[1].generatedID
                ELSE configs[1].clientID]

\* getClientID(state), f being the state's collabConfig facet.
GetClientID(f) == f.clientID

\* The client ID of peer p's editor state.
ClientID(p) == GetClientID(facet[p])

\* The origin of peer p's n-th local transaction; the character it inserts
\* (if it inserts one) carries the same number.
Origin(p, n) == 10 * p + n

\* collabField.create
CollabCreate == CollabState(StartVersion, <<>>)

\* collabField.update recording a transaction only when it changes the
\* document.
CollabUpdateChangesOnly(value, origin, changes, effects, clientID) ==
  IF ~CsEmpty(changes)
    THEN CollabState(value.version,
                     Append(value.unconfirmed, LocalUpdate(origin, changes, effects, clientID)))
    ELSE value

\* collabField.update for a transaction that is not a receiveUpdates one.
CollabUpdate(value, origin, changes, effects, clientID) ==
  IF effects # <<>> \/ ~CsEmpty(changes)
    THEN CollabState(value.version,
                     Append(value.unconfirmed, LocalUpdate(origin, changes, effects, clientID)))
    ELSE value

\* collabField.update without the collabReceive test: a receiveUpdates
\* transaction is recorded like a local one.
CollabFieldUpdateNoSync(value, isSync, origin, changes, effects, clientID) ==
  IF changes = Null THEN value
  ELSE CollabUpdate(value, origin, changes, effects, clientID)

\* collabField.update: isSync holds the value of the transaction's
\* collabReceive annotation (<<>>: the transaction has none).
CollabFieldUpdate(value, isSync, origin, changes, effects, clientID) ==
  IF isSync # <<>> THEN isSync[1]
  ELSE CollabUpdate(value, origin, changes, effects, clientID)

\* The state after construction, but for the collab extensions.
Created ==
  /\ updates = <<>>
  /\ serverDoc = StartDoc
  /\ doc = [p \in Peers |-> StartDoc]
  /\ collab = [p \in Peers |-> CollabCreate]
  /\ emitted = [p \in Peers |-> 0]
  /\ typed = {}
  /\ deleted = {}
  /\ folded = [p \in Peers |-> 0]
  /\ last = [op |-> "init", peer |-> 0, collab |-> CollabCreate, doc |-> StartDoc,
             log |-> 0, out |-> <<>>, id |-> NoID]
  /\ threw = FALSE
  /\ marks = [p \in Peers |-> <<>>]

\* collab({clientID: id, startVersion: 0}): the peers' client IDs are their
\* names.  The generated ID is not used then, and stands as its first value.
Init ==
  /\ ext = [p \in Peers |-> Collab(p, Generated(p, 1))]
  /\ facet = [p \in Peers |-> Combine(<<ext[p]>>)]
  /\ Created

\* value.sort((a, b) => a.id < b.id ? -1 : 1): the marks in the order of
\* their ids.
RECURSIVE SortById(_)
SortById(value) ==
  IF value = <<>> THEN <<>>
  ELSE LET k == CHOOSE i \in 1..Len(value) : \A j \in 1..Len(value) : value[i][3] <= value[j][3]
       IN <<value[k]>> \o SortById(SubSeq(value, 1, k - 1) \o SubSeq(value, k + 1, Len(value)))

\* The update of the marks field: the marks it holds are mapped over the
\* changes of the transaction (Null: none), those that collapse are dropped,
\* and the marks the transaction adds are put in.
MarksUpdate(value, changes, effects) ==
  IF changes = Null THEN SortById(value \o effects)
  ELSE IF MapEffects(value, changes) = EffErr \/ effects = EffErr THEN EffErr
  ELSE SortById(MapEffects(value, changes) \o effects)

RECURSIVE SumTo(_, _)
SumTo(f, n) == IF n = 0 THEN 0 ELSE f[n] + SumTo(f, n - 1)

TotalEmitted == SumTo(emitted, NPeers)

\* The record of a step of peer p: what the peer and the log were before it.
Before(op, p, out) ==
  [op |-> op, peer |-> p, collab |-> collab[p], doc |-> doc[p], log |-> Len(updates),
   out |-> out, id |-> ClientID(p)]

\* type(id, text, at, to): a local transaction replacing from..to, while
\* fewer than max transactions were made.
TypeUpTo(p, max) ==
  /\ ~threw
  /\ TotalEmitted < max
  /\ \E from \in 0..Len(doc[p]) :
       \E to \in from..Min(Len(doc[p]), from + MaxDel) :
         \E ins \in BOOLEAN :
           /\ from # to \/ ins
           /\ \E changes \in {CsOf(from, to, IF ins THEN <<Origin(p, emitted[p] + 1)>>
                                                    ELSE <<>>, Len(doc[p]))} :
                /\ doc' = [doc EXCEPT ![p] = CsApply(changes, doc[p])]
                /\ marks' = [marks EXCEPT ![p] = MarksUpdate(@, changes, <<>>)]
                /\ collab' = [collab EXCEPT
                                ![p] = CollabUpdate(@, Origin(p, emitted[p] + 1), changes,
                                                    <<>>, ClientID(p))]
           /\ emitted' = [emitted EXCEPT ![p] = @ + 1]
           /\ typed' = IF ins THEN typed \cup {Origin(p, emitted[p] + 1)} ELSE typed
           /\ deleted' = deleted \cup {doc[p][k] : k \in (from + 1)..to}
  /\ last' = Before("type", p, <<>>)
  /\ UNCHANGED <<updates, serverDoc, folded, threw, ext, facet>>

Type(p) == TypeUpTo(p, MaxEdits)

\* state.update({effects: addMark.of(new Mark(from, to, id))}) with
\* sharedEffects collecting the addMark effects: a local transaction that
\* changes no text and shares one mark.
MarkUpTo(p, max) ==
  /\ ~threw
  /\ TotalEmitted < max
  /\ \E from \in 0..Len(doc[p]) :
       \E to \in (from + 1)..Len(doc[p]) :
         /\ collab' = [collab EXCEPT
                         ![p] = CollabUpdate(@, Origin(p, emitted[p] + 1),
                                             EmptySet(Len(doc[p])),
                                             <<<<from, to, Origin(p, emitted[p] + 1)>>>>,
                                             ClientID(p))]
         /\ marks' = [marks EXCEPT
                        ![p] = MarksUpdate(@, EmptySet(Len(doc[p])),
                                           <<<<from, to, Origin(p, emitted[p] + 1)>>>>)]
  /\ emitted' = [emitted EXCEPT ![p] = @ + 1]
  /\ last' = Before("mark", p, <<>>)
  /\ UNCHANGED <<updates, serverDoc, doc, typed, deleted, folded, threw, ext, facet>>

\* The ranges of at most MaxMarkLen characters in a document of length n.
MarkRanges(n) ==
  {r \in (0..n) \X (0..n) : r[1] < r[2] /\ r[2] <= r[1] + MaxMarkLen}

\* state.update({changes: {from, to, insert}, effects}): the state after a
\* local transaction of peer p with these changes and shared effects.
Dispatch(p, changes, effects, text) ==
  /\ doc' = [doc EXCEPT ![p] = CsApply(changes, @)]
  /\ collab' = [collab EXCEPT
                  ![p] = CollabUpdate(@, Origin(p, emitted[p] + 1), changes, effects,
                                      ClientID(p))]
  /\ marks' = [marks EXCEPT ![p] = MarksUpdate(@, changes, effects)]
  /\ emitted' = [emitted EXCEPT
                   ![p] = @ + Len(CollabUpdate(collab[p], Origin(p, @ + 1), changes, effects,
                                               ClientID(p)).unconfirmed)
                            - Len(collab[p].unconfirmed)]
  /\ typed' = typed \cup {text[k] : k \in 1..Len(text)}
  /\ last' = Before("transact", p, <<changes, effects, PlainTags>>)

\* A local transaction of peer p: it replaces from..to (or changes nothing)
\* and shares one mark of the new document (or none).
Transact(p, max) ==
  /\ ~threw
  /\ TotalEmitted < max
  /\ \E from \in 0..Len(doc[p]) :
       \E to \in from..Min(Len(doc[p]), from + MaxDel) :
         \E text \in {<<>>, <<Origin(p, emitted[p] + 1)>>} :
           \E r \in MarkRanges(Len(doc[p]) - (to - from) + Len(text)) \cup {<<0, 0>>} :
             /\ Dispatch(p, CsOf(from, to, text, Len(doc[p])),
                         IF r = <<0, 0>> THEN <<>>
                         ELSE <<<<r[1], r[2], Origin(p, emitted[p] + 1)>>>>,
                         text)
             /\ deleted' = deleted \cup {doc[p][k] : k \in (from + 1)..to}
  /\ UNCHANGED <<updates, serverDoc, folded, threw, ext, facet>>

\* for (let update of sendable) serverDoc = update.changes.apply(serverDoc)
RECURSIVE ApplyUpdates(_, _, _)
ApplyUpdates(us, k, d) ==
  IF k > Len(us) THEN d ELSE ApplyUpdates(us, k + 1, CsApply(us[k].changes, d))

\* What send(id) pushes onto the log.
Sendable(p) ==
  LET version == GetSyncedVersion(collab[p])
      sendable == SendableUpdates(collab[p])
  IN IF version # Len(updates)
       THEN RebaseUpdates(sendable, SubSeq(updates, version + 1, Len(updates)))
       ELSE sendable

HasErr(us) == \E k \in 1..Len(us) : IsErr(us[k].changes) \/ us[k].effects = EffErr

\* send(id)
Send(p) ==
  /\ ~threw
  /\ \E sendable \in {Sendable(p)} :
       /\ sendable # <<>>
       /\ \E newDoc \in {ApplyUpdates(sendable, 1, serverDoc)} :
            IF HasErr(sendable) \/ newDoc = DocErr
              THEN /\ threw' = TRUE
                   /\ UNCHANGED <<updates, serverDoc>>
              ELSE /\ updates' = updates \o sendable
                   /\ serverDoc' = newDoc
                   /\ UNCHANGED threw
       /\ last' = Before("send", p, sendable)
  /\ UNCHANGED <<doc, collab, emitted, typed, deleted, folded, marks, ext, facet>>

\* The document after a transaction with these changes (Null: none).
TrApply(changes, d) == IF changes = Null THEN d ELSE CsApply(changes, d)

TrFails(tr, newDoc) ==
  IsErr(tr.changes) \/ HasErr(tr.collab.unconfirmed) \/ tr.effects = EffErr \/ newDoc = DocErr

\* receive(id)
Receive(p) ==
  /\ ~threw
  /\ GetSyncedVersion(collab[p]) < Len(updates)
  /\ \E tr \in {ReceiveUpdates(collab[p], ClientID(p),
                               SubSeq(updates, GetSyncedVersion(collab[p]) + 1,
                                      Len(updates)))} :
       /\ \E newDoc \in {TrApply(tr.changes, doc[p])} :
            IF TrFails(tr, newDoc) \/ MarksUpdate(marks[p], tr.changes, tr.effects) = EffErr
              THEN /\ threw' = TRUE
                   /\ UNCHANGED <<doc, collab, folded, marks>>
              ELSE /\ doc' = [doc EXCEPT ![p] = newDoc]
                   /\ marks' = [marks EXCEPT ![p] = MarksUpdate(@, tr.changes, tr.effects)]
                   /\ collab' = [collab EXCEPT
                                   ![p] = CollabFieldUpdate(@, <<tr.collab>>, NoOrigin,
                                                            tr.changes, tr.effects,
                                                            ClientID(p))]
                   /\ folded' = [folded EXCEPT
                                   ![p] = @ + Len(updates) - GetSyncedVersion(collab[p])]
                   /\ UNCHANGED threw
       /\ last' = Before("receive", p, <<tr.changes, tr.effects, tr.tags>>)
  /\ UNCHANGED <<updates, serverDoc, emitted, typed, deleted, ext, facet>>

Next == \E p \in Peers : Type(p) \/ Send(p) \/ Receive(p)

Spec == Init /\ [][Next]_vars

\* A call of receiveUpdates(state, []) on peer p's state: the transaction is
\* applied like any other.
ReceiveNothing(p) ==
  /\ ~threw
  /\ \E tr \in {ReceiveUpdates(collab[p], ClientID(p), <<>>)} :
       /\ doc' = [doc EXCEPT ![p] = TrApply(tr.changes, @)]
       /\ collab' = [collab EXCEPT
                       ![p] = CollabFieldUpdate(@, <<tr.collab>>, NoOrigin, tr.changes,
                                                tr.effects, ClientID(p))]
       /\ marks' = [marks EXCEPT ![p] = MarksUpdate(@, tr.changes, tr.effects)]
       /\ last' = Before("receive []", p, <<tr.changes, tr.effects>>)
  /\ UNCHANGED <<updates, serverDoc, emitted, typed, deleted, folded, threw, ext, facet>>

\* A call of rebaseUpdates(sendableUpdates(state), []) for peer p.
RebaseOverNothing(p) ==
  /\ ~threw
  /\ last' = Before("rebase over []", p, RebaseUpdates(SendableUpdates(collab[p]), <<>>))
  /\ UNCHANGED <<updates, serverDoc, doc, collab, emitted, typed, deleted, folded, threw,
                 marks, ext, facet>>

\* A call of rebaseUpdates([], over), over the log from peer p's version.
RebaseNothing(p) ==
  /\ ~threw
  /\ GetSyncedVersion(collab[p]) < Len(updates)
  /\ last' = Before("rebase []", p,
                    RebaseUpdates(<<>>, SubSeq(updates, GetSyncedVersion(collab[p]) + 1,
                                               Len(updates))))
  /\ UNCHANGED <<updates, serverDoc, doc, collab, emitted, typed, deleted, folded, threw,
                 marks, ext, facet>>

NextCalls ==
  \E p \in Peers :
    \/ TypeUpTo(p, MaxCallEdits)
    \/ MarkUpTo(p, MaxCallEdits)
    \/ Send(p)
    \/ Receive(p)
    \/ ReceiveNothing(p)
    \/ RebaseOverNothing(p)
    \/ RebaseNothing(p)

\* The protocol, with shared marks, together with the degenerate calls of
\* the two functions.
SpecCalls == Init /\ [][NextCalls]_vars

NextMarks ==
  \E p \in Peers :
    TypeUpTo(p, MaxMarkEdits) \/ MarkUpTo(p, MaxMarkEdits) \/ Send(p) \/ Receive(p)

\* The protocol with the transactions of the shared-effects test: text edits
\* and transactions that only share a mark.
SpecMarks == Init /\ [][NextMarks]_vars

\* state.update({effects: StateEffect.reconfigure.of(ext)}): a local
\* transaction that configures the state with the extension it has.
Reconfigure(p) ==
  /\ ~threw
  /\ facet' = [facet EXCEPT ![p] = Combine(<<ext[p]>>)]
  /\ collab' = [collab EXCEPT
                  ![p] = CollabUpdate(@, Origin(p, emitted[p] + 1), EmptySet(Len(doc[p])),
                                      <<>>, ClientID(p))]
  /\ marks' = [marks EXCEPT ![p] = MarksUpdate(@, EmptySet(Len(doc[p])), <<>>)]
  /\ last' = Before("reconfigure", p, <<>>)
  /\ UNCHANGED <<updates, serverDoc, doc, emitted, typed, deleted, folded, threw, ext>>

\* collab({clientID: p}) or collab(), with any of the IDs it may generate.
ExtChoices(p) == {Collab(c, g) : c \in {NoID, p}, g \in GeneratedIDs(p)}

\* Peers made with collab({clientID}) or with collab(), whatever IDs the
\* extensions generated.
InitIdentity ==
  /\ ext \in {e \in [Peers -> UNION {ExtChoices(p) : p \in Peers}] :
                \A p \in Peers : e[p] \in ExtChoices(p)}
  /\ facet = [p \in Peers |-> Combine(<<ext[p]>>)]
  /\ Created

NextIdentity ==
  \E p \in Peers : TypeUpTo(p, MaxCallEdits) \/ Send(p) \/ Receive(p) \/ Reconfigure(p)

\* The protocol between peers with configured or generated client IDs that
\* reconfigure their states.
SpecIdentity == InitIdentity /\ [][NextIdentity]_vars

\* sendableUpdates(state), called on its own.
SendableCall(p) ==
  /\ ~threw
  /\ last' = Before("sendable", p, SendableUpdates(collab[p]))
  /\ UNCHANGED <<updates, serverDoc, doc, collab, emitted, typed, deleted, folded, threw,
                 marks, ext, facet>>

NextShared ==
  \E p \in Peers : Transact(p, MaxSharedEdits) \/ Send(p) \/ Receive(p) \/ SendableCall(p)

\* The protocol with local transactions that change text, share marks, do
\* both or do neither.
SpecShared == Init /\ [][NextShared]_vars

\* The protocol when no participant is kept from sending or from receiving
\* for ever: an event list in which send(id) and receive(id) keep coming for
\* every id.
\* send(id) has something to do: the guards of Send.
CanSend(p) == ~threw /\ Sendable(p) # <<>>

\* receive(id) has something to do: the guards of Receive.
CanReceive(p) == ~threw /\ GetSyncedVersion(collab[p]) < Len(updates)

\* Weak fairness of send(p) and of receive(p), WF_vars(Send(p)) and
\* WF_vars(Receive(p)), written out with the guards for ENABLED: each is
\* again and again either done or without anything to do.
Fair(p) ==
  /\ []<>(~CanSend(p)) \/ []<><<Send(p)>>_vars
  /\ []<>(~CanReceive(p)) \/ []<><<Receive(p)>>_vars

SpecFair ==
  /\ Init
  /\ [][Next]_vars
  /\ \A p \in Peers : Fair(p)

(***************************************************************************)
(* receiveUpdates(state, updates, ownUpdateCount), as it was before updates *)
(* had a clientID field.                                                   *)
(***************************************************************************)

\* new LocalUpdate(origin, changes, effects)
OldLocalUpdate(origin, changes, effects) ==
  [changes |-> changes, effects |-> effects, origin |-> origin]

\* mapEffects(effects, mapping)
OldMapEffects(effects, mapping) ==
  IF effects = <<>> THEN effects
  ELSE IF effects = EffErr \/ IsErr(mapping) THEN EffErr
  ELSE MapEffectsLoop(effects, mapping, 1, <<>>)

\* OldSlice that keeps the receiver's own updates in the batch.
OldSliceKept(us, ownUpdateCount) == us

\* if (ownUpdateCount) updates = updates.slice(ownUpdateCount)
OldSlice(us, ownUpdateCount) ==
  IF ownUpdateCount # 0 THEN SubSeq(us, ownUpdateCount + 1, Len(us))
  ELSE us

\* The loop that composes the changes of updates[1..] and gathers their
\* effects; i counts from 1 as the code's i + 1.
RECURSIVE OldGather(_, _, _)
OldGather(us, i, st) ==
  IF i > Len(us) THEN st
  ELSE OldGather(us, i + 1,
                 [changes |-> CsCompose(st.changes, us[i].changes),
                  effects |-> OldMapEffects(st.effects, us[i].changes)
                                \o us[i].effects])

\* The body of the loop over unconfirmed: next is `changes` after
\* changes.map(update.changes, true).
OldRebaseOne(st, update, next) ==
  [unconfirmed |-> Append(st.unconfirmed,
                          OldLocalUpdate(update.origin,
                                         CsMap(update.changes, st.changes, FALSE),
                                         OldMapEffects(update.effects, next))),
   changes |-> next]

RECURSIVE OldRebase(_, _, _)
OldRebase(unconfirmed, k, st) ==
  IF k > Len(unconfirmed) THEN st
  ELSE OldRebase(unconfirmed, k + 1,
                 OldRebaseOne(st, unconfirmed[k],
                              CsMap(st.changes, unconfirmed[k].changes, TRUE)))

\* if (effects.length) effects = mapEffects(effects, unconfirmed.reduce(...)),
\* inside if (unconfirmed.length).
OldEffects(effects, unconfirmed) ==
  IF unconfirmed # <<>> /\ effects # <<>>
    THEN OldMapEffects(effects,
                       ComposeAll(unconfirmed, 1, EmptySet(CsLength(unconfirmed[1].changes))))
    ELSE effects

\* The transaction built at the end: no history entry, no change filter.
OldTransaction(version, m, effects) ==
  [collab |-> CollabState(version, m.unconfirmed), changes |-> m.changes,
   effects |-> OldEffects(effects, m.unconfirmed), tags |-> Tags(FALSE, FALSE, FALSE)]

\* From if (unconfirmed.length) on: g is what the loop over the updates left.
OldFinish(version, unconfirmed, g) ==
  OldTransaction(version,
                 IF unconfirmed # <<>>
                   THEN OldRebase(unconfirmed, 1,
                                  [unconfirmed |-> <<>>, changes |-> g.changes])
                   ELSE [unconfirmed |-> unconfirmed, changes |-> g.changes],
                 g.effects)

\* From if (!updates.length) on: all updates were the receiver's own, or
\* the rest is composed and rebased over.
OldAfterSlice(version, unconfirmed, us) ==
  IF us = <<>>
    THEN [collab |-> CollabState(version, unconfirmed), changes |-> Null,
          effects |-> <<>>, tags |-> PlainTags]
    ELSE OldFinish(version, unconfirmed,
                   OldGather(us, 2, [changes |-> us[1].changes,
                                     effects |-> us[1].effects]))

\* receiveUpdates(state, updates, ownUpdateCount)
ReceiveUpdatesOld(state, us, ownUpdateCount) ==
  OldAfterSlice(state.version + Len(us),
                SubSeq(state.unconfirmed, ownUpdateCount + 1, Len(state.unconfirmed)),
                OldSlice(us, ownUpdateCount))

\* The number of updates at the front of batch that carry the client ID id.
RECURSIVE OwnPrefix(_, _, _)
OwnPrefix(batch, k, id) ==
  IF k > Len(batch) \/ batch[k].clientID # id THEN k - 1
  ELSE OwnPrefix(batch, k + 1, id)

\* A call of the earlier receiveUpdates on peer p's state, for a batch that
\* has the peer's own updates first and foreign updates after them, with the
\* number of the own ones for ownUpdateCount.  The transaction is not applied.
ReceiveOld(p) ==
  /\ ~threw
  /\ GetSyncedVersion(collab[p]) < Len(updates)
  /\ \E batch \in {SubSeq(updates, GetSyncedVersion(collab[p]) + 1, Len(updates))} :
       \E n \in {OwnPrefix(batch, 1, ClientID(p))} :
         /\ \A k \in (n + 1)..Len(batch) : batch[k].clientID # ClientID(p)
         /\ \E tr \in {ReceiveUpdatesOld(collab[p], batch, n)} :
              last' = Before("receive old", p, <<tr.changes, tr.effects, tr.collab>>)
  /\ UNCHANGED <<updates, serverDoc, doc, collab, emitted, typed, deleted, folded, threw,
                 marks, ext, facet>>

NextOld ==
  \E p \in Peers :
    \/ TypeUpTo(p, MaxMarkEdits) \/ MarkUpTo(p, MaxMarkEdits)
    \/ Send(p) \/ Receive(p) \/ ReceiveOld(p)

\* The protocol of SpecMarks, with calls of the earlier receiveUpdates on
\* the states and batches it goes through.
SpecOld == Init /\ [][NextOld]_vars

(***************************************************************************)
(* Properties.                                                             *)
(***************************************************************************)

\* The change scripts, the origins and the client IDs of a list of updates.
Changes(us) == [k \in 1..Len(us) |-> us[k].changes]
Origins(us) == [k \in 1..Len(us) |-> us[k].origin]

\* The updates of a list that carry this client ID, in order.
ByClient(us, id) == SelectSeq(us, LAMBDA u : u.clientID = id)

\* The text a change set inserts, in document order.
RECURSIVE Inserted(_)
Inserted(cs) == IF cs = <<>> THEN <<>> ELSE cs[1][3] \o Inserted(Tail(cs))

\* The number of times c occurs in a sequence.
Count(seq, c) == Cardinality({k \in 1..Len(seq) : seq[k] = c})

\* The log entries peer p has not received yet.
LogTail(p) == SubSeq(updates, GetSyncedVersion(collab[p]) + 1, Len(updates))

\* Peer p has sent every local transaction it made / received the whole log.
AllSent(p) == Len(ByClient(updates, ClientID(p))) = emitted[p]
AllReceived(p) == GetSyncedVersion(collab[p]) = Len(updates)
Quiescent == \A p \in Peers : AllSent(p) /\ AllReceived(p)

\* C1 (convergence): once every peer has sent all its updates and received
\* the whole log, every peer's document is the start document with the log
\* applied in order, and so all documents are identical.
Convergence ==
  Quiescent =>
    /\ ApplyUpdates(updates, 1, StartDoc) # DocErr
    /\ \A p \in Peers : doc[p] = ApplyUpdates(updates, 1, StartDoc)

\* C1, its case: all edits made by both peers, some of them deleting, one of
\* the log entries rebased by the authority, everything sent and received.
ConvergenceCase ==
  /\ Quiescent
  /\ TotalEmitted = MaxEdits
  /\ \A p \in Peers : emitted[p] > 0
  /\ \E k \in 1..Len(updates) : updates[k].origin = NoOrigin
  /\ deleted # {}
  /\ typed # {}
  /\ last.op = "receive"

\* The log slice from peer p's version up to entry j.
Slice(p, j) == SubSeq(updates, GetSyncedVersion(collab[p]) + 1, j)

\* What peer p would submit after receiving `over`.
Resubmitted(p, over) ==
  SendableUpdates(ReceiveUpdates(collab[p], ClientID(p), over).collab)

\* What the authority makes of peer p's submission over `over`.
Rebased(p, over) == RebaseUpdates(SendableUpdates(collab[p]), over)

\* C2 (server rebase equals wait-and-resubmit): for every peer state and
\* every log slice starting at its version, the change scripts of
\* rebaseUpdates(sendableUpdates(s), over) are entry by entry those of
\* sendableUpdates after receiveUpdates(s, over); over the whole log tail
\* both submissions take the authority's document to the same document.
RebaseIsResubmit ==
  \A p \in Peers :
    /\ \A j \in GetSyncedVersion(collab[p])..Len(updates) :
         Changes(Rebased(p, Slice(p, j))) = Changes(Resubmitted(p, Slice(p, j)))
    /\ ApplyUpdates(Rebased(p, LogTail(p)), 1, serverDoc)
         = ApplyUpdates(Resubmitted(p, LogTail(p)), 1, serverDoc)

\* C2, its case: a stale peer whose log tail holds an echo of its own and a
\* foreign update, and whose remaining submission the rebase changes.
RebaseIsResubmitCase ==
  \E p \in Peers :
    /\ ByClient(LogTail(p), ClientID(p)) # <<>>
    /\ ByClient(LogTail(p), ClientID(p)) # LogTail(p)
    /\ Rebased(p, LogTail(p)) # <<>>
    /\ \A k \in 1..Len(SendableUpdates(collab[p])) :
         SendableUpdates(collab[p])[k].changes # Rebased(p, LogTail(p))[1].changes

\* The peer whose transaction inserted character c.
Owner(c) == c \div 10

\* The batch the last receive was called with.
LastBatch == SubSeq(updates, GetSyncedVersion(last.collab) + 1, last.log)

\* The number of echoes of the receiving peer's own updates in that batch.
LastEchoes == Len(ByClient(LastBatch, ClientID(last.peer)))

\* The last step was a receive that returned.
Received == last.op = "receive" /\ ~threw

\* C3 (own-update confirmation): a receive removes one head entry of
\* `unconfirmed` per echo in the batch and nothing else; the changes of its
\* transaction insert no text of the receiving peer (none at all when the
\* batch holds echoes only); and no document holds a character twice, while
\* it holds each character its peer typed and nobody deleted exactly once.
OwnConfirmedOnce ==
  /\ Received =>
       /\ LastEchoes <= Len(last.collab.unconfirmed)
       /\ Origins(collab[last.peer].unconfirmed)
            = Origins(SubSeq(last.collab.unconfirmed, LastEchoes + 1,
                             Len(last.collab.unconfirmed)))
       /\ \A k \in 1..Len(Inserted(last.out[1])) :
            Owner(Inserted(last.out[1])[k]) # last.peer
       /\ LastEchoes = Len(LastBatch) => last.out[1] = Null /\ doc[last.peer] = last.doc
  /\ \A p \in Peers :
       /\ \A c \in typed \cup {StartDoc[k] : k \in 1..DocLen} : Count(doc[p], c) <= 1
       /\ \A c \in typed \ deleted : Owner(c) = p => Count(doc[p], c) = 1

\* C3, its case: a receive of a batch with an echo and a foreign update by a
\* peer that still has an unconfirmed update afterwards.
OwnConfirmedOnceCase ==
  /\ Received
  /\ LastEchoes > 0
  /\ LastEchoes < Len(LastBatch)
  /\ collab[last.peer].unconfirmed # <<>>
  /\ \E c \in typed : Owner(c) = last.peer /\ Count(doc[last.peer], c) = 1

\* The origins of peer p's transactions in emission order.
Emission(p) == [k \in 1..emitted[p] |-> Origin(p, k)]

IsSuffix(s, t) == Len(s) <= Len(t) /\ s = SubSeq(t, Len(t) - Len(s) + 1, Len(t))

\* The text the transaction with this origin inserted.
TextOf(origin) == IF origin \in typed THEN <<origin>> ELSE <<>>

\* C4 (FIFO preservation): `unconfirmed` always holds the latest
\* transactions of its peer in emission order, each entry still inserting
\* the text of its transaction; a receive keeps the entries that are not
\* echoed, in their order, and a local edit appends one entry at the end.
FifoPreserved ==
  /\ \A p \in Peers :
       /\ IsSuffix(Origins(collab[p].unconfirmed), Emission(p))
       /\ \A k \in 1..Len(collab[p].unconfirmed) :
            Inserted(collab[p].unconfirmed[k].changes)
              = TextOf(collab[p].unconfirmed[k].origin)
  /\ Received =>
       /\ IsSuffix(Origins(collab[last.peer].unconfirmed), Origins(last.collab.unconfirmed))
       /\ Len(collab[last.peer].unconfirmed) = Len(last.collab.unconfirmed) - LastEchoes
  /\ last.op = "type" =>
       Origins(collab[last.peer].unconfirmed)
         = Append(Origins(last.collab.unconfirmed), Origin(last.peer, emitted[last.peer]))

\* C4, its case: a receive that rebased two unconfirmed updates over a
\* foreign update.
FifoPreservedCase ==
  /\ Received
  /\ Len(collab[last.peer].unconfirmed) >= 2
  /\ last.out[1] # Null
  /\ \A k \in 1..Len(collab[last.peer].unconfirmed) :
       collab[last.peer].unconfirmed[k].changes # last.collab.unconfirmed[k].changes

\* C5 (version accounting): the version of a peer is startVersion plus the
\* number of log entries it has received, and never exceeds the log length;
\* a receive adds the size of its batch, echoes and foreign updates alike,
\* a local edit leaves the version alone, and no step decreases it.
VersionAccounting ==
  /\ \A p \in Peers :
       /\ GetSyncedVersion(collab[p]) = StartVersion + folded[p]
       /\ GetSyncedVersion(collab[p]) <= Len(updates)
  /\ Received =>
       GetSyncedVersion(collab[last.peer]) = GetSyncedVersion(last.collab) + Len(LastBatch)
  /\ last.op = "type" =>
       GetSyncedVersion(collab[last.peer]) = GetSyncedVersion(last.collab)
  /\ last.op # "init" =>
       GetSyncedVersion(collab[last.peer]) >= GetSyncedVersion(last.collab)

\* C5, its case: a receive of a batch with an echo and a foreign update.
VersionAccountingCase ==
  /\ Received
  /\ LastEchoes > 0
  /\ LastEchoes < Len(LastBatch)
  /\ GetSyncedVersion(last.collab) > StartVersion
  /\ folded[last.peer] = Len(updates)

\* The last step was a send that returned.
Sent == last.op = "send" /\ ~threw

\* The echoes of the sending peer's updates that were in the log, past its
\* version, when it sent.
SentBefore == Len(ByClient(LastBatch, ClientID(last.peer)))

\* C6 (already accepted updates are filtered out): rebaseUpdates drops one
\* submitted update per entry of `over` with its client ID and returns the
\* others in order; so the log never holds more entries of a peer than the
\* peer made transactions, its k-th entry of a peer is that peer's k-th
\* transaction, and a send appends exactly the transactions not yet in it.
AcceptedOnce ==
  /\ \A p \in Peers :
       /\ Len(ByClient(updates, ClientID(p))) <= emitted[p]
       /\ \A k \in 1..Len(ByClient(updates, ClientID(p))) :
            Inserted(ByClient(updates, ClientID(p))[k].changes) = TextOf(Origin(p, k))
       /\ Len(Rebased(p, LogTail(p)))
            = Len(SendableUpdates(collab[p]))
                - Min(Len(SendableUpdates(collab[p])),
                      Len(ByClient(LogTail(p), ClientID(p))))
       /\ \A k \in 1..Len(Rebased(p, LogTail(p))) :
            Inserted(Rebased(p, LogTail(p))[k].changes)
              = Inserted(SendableUpdates(collab[p])
                           [k + Len(SendableUpdates(collab[p]))
                              - Len(Rebased(p, LogTail(p)))].changes)
  /\ Sent =>
       /\ AllSent(last.peer)
       /\ updates = SubSeq(updates, 1, last.log) \o last.out
       /\ Len(last.out) = Len(last.collab.unconfirmed) - SentBefore

\* C6, its case: a peer that sent, made another edit and sent again before
\* receiving the echo of the first.
AcceptedOnceCase ==
  /\ Sent
  /\ SentBefore > 0
  /\ last.out # <<>>
  /\ Len(ByClient(updates, ClientID(last.peer))) >= 2

\* The change scripts of us apply in sequence to a document of length n.
RECURSIVE LengthsFit(_, _, _)
LengthsFit(us, k, n) ==
  \/ k > Len(us)
  \/ /\ ~IsErr(us[k].changes)
     /\ CsLength(us[k].changes) = n
     /\ LengthsFit(us, k + 1, CsNewLength(us[k].changes))

\* C7 (the server rebase applies cleanly): for a peer at a stale version,
\* each update rebaseUpdates returns is made for the length of the document
\* the log and the updates returned before it lead to, so they apply to the
\* authority's document; every log entry fits the document before it, and
\* no send throws.
RebaseAppliesCleanly ==
  /\ \A p \in Peers :
       GetSyncedVersion(collab[p]) # Len(updates) =>
         /\ LengthsFit(Rebased(p, LogTail(p)), 1, Len(serverDoc))
         /\ ApplyUpdates(Rebased(p, LogTail(p)), 1, serverDoc) # DocErr
  /\ LengthsFit(updates, 1, Len(StartDoc))
  /\ serverDoc = ApplyUpdates(updates, 1, StartDoc)
  /\ last.op = "send" => ~threw

\* C7, its case: a send from a stale version that appended two rebased
\* updates, made for another document length than they were submitted for.
RebaseAppliesCleanlyCase ==
  /\ Sent
  /\ GetSyncedVersion(last.collab) # last.log
  /\ Len(last.out) >= 2
  /\ CsLength(last.out[1].changes) # CsLength(last.collab.unconfirmed[1].changes)
  /\ CsLength(last.out[2].changes) # CsLength(last.collab.unconfirmed[2].changes)

\* One local insert and one foreign insert made at the same position x of
\* the same document: un is the queue of peer p, over the log slice.
TieAt(p, un, over, x) ==
  /\ Len(un) = 1
  /\ Len(over) = 1
  /\ over[1].clientID # ClientID(p)
  /\ Len(Inserted(un[1].changes)) = 1
  /\ Len(Inserted(over[1].changes)) = 1
  /\ x <= CsLength(un[1].changes)
  /\ un[1].changes = CsOf(x, x, Inserted(un[1].changes), CsLength(un[1].changes))
  /\ over[1].changes = CsOf(x, x, Inserted(over[1].changes), CsLength(un[1].changes))

\* In document d the foreign text of over comes right before the local text
\* of un, at position x.
ForeignFirst(d, un, over, x) ==
  /\ Len(d) >= x + 2
  /\ d[x + 1] = Inserted(over[1].changes)[1]
  /\ d[x + 2] = Inserted(un[1].changes)[1]

\* The local insert of un moved behind a foreign insert at its position x.
MovedBehind(un, x) ==
  CsOf(x + 1, x + 1, Inserted(un[1].changes), CsLength(un[1].changes) + 1)

\* C8 (tie-break): when a foreign insert of the log and a remaining local
\* insert target the same position, receiveUpdates and rebaseUpdates both
\* move the local insert behind the foreign text, so that the foreign text
\* comes first in the peer's document after a receive and in the
\* authority's document after a send.
ForeignBeforeLocal ==
  /\ \A p \in Peers : \A x \in 0..(DocLen + MaxEdits) :
       TieAt(p, SendableUpdates(collab[p]), LogTail(p), x) =>
         /\ Resubmitted(p, LogTail(p))[1].changes = MovedBehind(SendableUpdates(collab[p]), x)
         /\ Rebased(p, LogTail(p))[1].changes = MovedBehind(SendableUpdates(collab[p]), x)
         /\ ForeignFirst(TrApply(ReceiveUpdates(collab[p], ClientID(p), LogTail(p)).changes,
                                  doc[p]),
                          SendableUpdates(collab[p]), LogTail(p), x)
         /\ ForeignFirst(ApplyUpdates(Rebased(p, LogTail(p)), 1, serverDoc),
                          SendableUpdates(collab[p]), LogTail(p), x)
  /\ \A x \in 0..(DocLen + MaxEdits) :
       TieAt(last.peer, last.collab.unconfirmed, LastBatch, x) =>
         /\ Received => ForeignFirst(doc[last.peer], last.collab.unconfirmed, LastBatch, x)
         /\ Sent => ForeignFirst(serverDoc, last.collab.unconfirmed, LastBatch, x)

\* C8, its case, on the peer's side: a receive of a foreign insert made at
\* the position of the peer's unconfirmed insert.
ForeignBeforeLocalCase ==
  /\ Received
  /\ \E x \in 0..(DocLen + MaxEdits) : TieAt(last.peer, last.collab.unconfirmed, LastBatch, x)

\* C9 (an empty batch is a no-op): receiveUpdates(state, []) gives a
\* transaction without changes and without effects whose collab state has
\* the version and the `unconfirmed` queue of `state`; the document stays.
EmptyBatchNoOp ==
  last.op = "receive []" =>
    /\ last.out = <<Null, <<>>>>
    /\ GetSyncedVersion(collab[last.peer]) = GetSyncedVersion(last.collab)
    /\ collab[last.peer].unconfirmed = last.collab.unconfirmed
    /\ doc[last.peer] = last.doc

\* C9, its case: the call on a state with unconfirmed updates, one of them
\* with a shared effect, at a version behind the log.
EmptyBatchNoOpCase ==
  /\ last.op = "receive []"
  /\ Len(last.collab.unconfirmed) >= 2
  /\ \E k \in 1..Len(last.collab.unconfirmed) : last.collab.unconfirmed[k].effects # <<>>
  /\ GetSyncedVersion(last.collab) < Len(updates)

\* C10 (rebaseUpdates with empty input): with `over` empty the result is
\* `updates` itself, entries, order, change scripts, effects and origins
\* included; with `updates` empty the result is empty.
RebaseEmptyInput ==
  /\ last.op = "rebase over []" => last.out = SendableUpdates(last.collab)
  /\ last.op = "rebase []" => last.out = <<>>

\* C10, its case: the call with `over` empty on two updates, one of them
\* with a shared effect.
RebaseEmptyInputCase ==
  /\ last.op = "rebase over []"
  /\ Len(last.out) >= 2
  /\ \E k \in 1..Len(last.out) : last.out[k].effects # <<>>
  /\ \E k \in 1..Len(last.out) : ~CsEmpty(last.out[k].changes)


\* The local transaction the last step made, if it made one.
Transacted == last.op = "transact"

\* The entries of us before its last one.
Front(us) == SubSeq(us, 1, Len(us) - 1)

\* C11: a local transaction with empty changes and no shared effects leaves
\* the sync state as it was; any other local transaction appends exactly one
\* local update, holding the transaction's changes, its shared effects and
\* the participant's client ID, at the end of unconfirmed, and leaves the
\* earlier entries and the version as they were.
LocalCapture ==
  Transacted =>
    IF CsEmpty(last.out[1]) /\ last.out[2] = <<>>
      THEN collab[last.peer] = last.collab
      ELSE /\ collab[last.peer].version = last.collab.version
           /\ Len(collab[last.peer].unconfirmed) = Len(last.collab.unconfirmed) + 1
           /\ Front(collab[last.peer].unconfirmed) = last.collab.unconfirmed
           /\ \E u \in {collab[last.peer].unconfirmed[Len(last.collab.unconfirmed) + 1]} :
                /\ u.changes = last.out[1]
                /\ u.effects = last.out[2]
                /\ u.clientID = ClientID(last.peer)

\* C11 happens: a transaction that only shares a mark was captured behind an
\* update that was already waiting.
LocalCaptureCase ==
  /\ Transacted
  /\ CsEmpty(last.out[1])
  /\ last.out[2] # <<>>
  /\ last.collab.unconfirmed # <<>>
  /\ Len(collab[last.peer].unconfirmed) = Len(last.collab.unconfirmed) + 1


\* The effects moved over the changes of batch[k..] in turn.
RECURSIVE CarriedOver(_, _, _)
CarriedOver(effects, batch, k) ==
  IF k > Len(batch) THEN effects
  ELSE CarriedOver(MapEffects(effects, batch[k].changes), batch, k + 1)

\* The effects moved over the composition of the changes of unconfirmed.
OverUnconfirmed(effects, unconfirmed) ==
  IF unconfirmed = <<>> THEN effects
  ELSE MapEffects(effects,
                  ComposeAll(unconfirmed, 1, EmptySet(CsLength(unconfirmed[1].changes))))

\* The effects of the updates batch[j..] that do not carry the client ID id,
\* each moved over every later update of the batch and then over unconfirmed.
RECURSIVE ForeignEffects(_, _, _, _)
ForeignEffects(batch, j, id, unconfirmed) ==
  IF j > Len(batch) THEN <<>>
  ELSE (IF batch[j].clientID = id THEN <<>>
        ELSE OverUnconfirmed(CarriedOver(batch[j].effects, batch, j + 1), unconfirmed))
       \o ForeignEffects(batch, j + 1, id, unconfirmed)

\* All participants hold the same marks once everything was sent and
\* received.
MarksAgree == Quiescent => \A p, q \in Peers : marks[p] = marks[q]

\* The effects a receiveUpdates transaction delivers are the foreign
\* effects of the batch, each moved over every later update of the batch and
\* then over the composition of the rebased unconfirmed changes.
EffectsPositioned ==
  Received /\ last.out[1] # Null =>
    last.out[2] = ForeignEffects(LastBatch, 1, ClientID(last.peer),
                                 collab[last.peer].unconfirmed)

\* C12: shared effects converge, so that once everything was sent and
\* received all participants hold the same marks; and a foreign effect a
\* receive delivers was moved over every later update of its batch and then
\* over the composition of the rebased unconfirmed changes.
EffectsConverge == MarksAgree /\ EffectsPositioned

\* C12 happens: everything was sent and received, and the last receive
\* delivered a foreign mark that a later update of the batch had moved.
EffectsConvergeCase ==
  /\ Quiescent
  /\ Received
  /\ last.out[2] # <<>>
  /\ \E k \in 1..Len(LastBatch) :
       /\ LastBatch[k].effects # <<>>
       /\ LastBatch[k].effects # last.out[2]
  /\ \A p \in Peers : marks[p] # <<>>


\* The last step was a call of sendableUpdates.
AskedSendable == last.op = "sendable"

\* The update u is what became of the transaction with its origin: it
\* inserts the text that transaction inserted and shares its mark.
FromOrigin(u) ==
  /\ Inserted(u.changes) = TextOf(u.origin)
  /\ \A k \in 1..Len(u.effects) : u.effects[k][3] = u.origin

\* C13: sendableUpdates returns the unconfirmed updates as they are, in
\* emission order, and changes nothing; the origin of each returned update
\* is the transaction that produced it; and a receive keeps the origins of
\* the entries it rebases.
SendableVerbatim ==
  /\ AskedSendable =>
       /\ last.out = last.collab.unconfirmed
       /\ collab[last.peer] = last.collab
       /\ doc[last.peer] = last.doc
       /\ Len(updates) = last.log
       /\ Origins(last.out)
            = SubSeq(Emission(last.peer), emitted[last.peer] - Len(last.out) + 1,
                     emitted[last.peer])
       /\ \A k \in 1..Len(last.out) : FromOrigin(last.out[k])
  /\ Received =>
       Origins(collab[last.peer].unconfirmed)
         = SubSeq(Origins(last.collab.unconfirmed),
                  Len(last.collab.unconfirmed) - Len(collab[last.peer].unconfirmed) + 1,
                  Len(last.collab.unconfirmed))

\* C13 happens: sendableUpdates returned an update with text and a mark that
\* applies to the document with a received foreign insertion.
SendableVerbatimCase ==
  /\ AskedSendable
  /\ Len(last.out) = 1
  /\ last.out[1].effects # <<>>
  /\ Inserted(last.out[1].changes) # <<>>
  /\ folded[last.peer] = 1
  /\ Inserted(updates[1].changes) # <<>>
  /\ CsLength(last.out[1].changes) = DocLen + 1
  /\ CsNewLength(last.out[1].changes) = DocLen + 2


\* `changes` as the loop of the last receive over its batch left it.
LastForeign ==
  ReceiveLoop(LastBatch, last.collab.unconfirmed, 1,
              [changes |-> Null, effects |-> <<>>, own |-> 0]).changes

\* The last receive recorded the new sync state and nothing else: its
\* transaction has no changes and no effects, the document is as it was, the
\* version advanced by the size of the batch and `unconfirmed` lost the
\* echoed entries and is otherwise as it was.
MetadataOnly ==
  /\ last.out[1] = Null
  /\ last.out[2] = <<>>
  /\ doc[last.peer] = last.doc
  /\ GetSyncedVersion(collab[last.peer]) = GetSyncedVersion(last.collab) + Len(LastBatch)
  /\ collab[last.peer].unconfirmed
       = SubSeq(last.collab.unconfirmed, LastEchoes + 1, Len(last.collab.unconfirmed))

\* C14 as stated: when the aggregate foreign change script is empty after
\* the batch, the receive is metadata-only.
MetadataOnlyWhenEmpty ==
  Received /\ (LastForeign = Null \/ CsEmpty(LastForeign)) => MetadataOnly

\* C14, amended: when the batch holds no foreign update, so that the
\* aggregate foreign change script was never set, the receive is
\* metadata-only.
MetadataOnlyWhenUnset ==
  Received /\ (\A k \in 1..Len(LastBatch) : LastBatch[k].clientID = ClientID(last.peer))
    => LastForeign = Null /\ MetadataOnly

\* C14 happens: a batch of own echoes only was received by a peer that still
\* has an unconfirmed update.
MetadataOnlyWhenUnsetCase ==
  /\ Received
  /\ LastEchoes = Len(LastBatch)
  /\ collab[last.peer].unconfirmed # <<>>
  /\ Len(collab[last.peer].unconfirmed) < Len(last.collab.unconfirmed)


\* The batch of the last receive holds an update of another participant.
ForeignInBatch ==
  \E k \in 1..Len(LastBatch) : LastBatch[k].clientID # ClientID(last.peer)

\* C15: a receive of a batch with foreign content makes one transaction,
\* whose changes take the document to its new value and which carries the
\* foreign effects, the new sync state, and the tags that keep it out of the
\* undo history, mark it as remote and let it bypass the change filters; a
\* local transaction never carries those tags.
TaggedRemote ==
  /\ Received /\ ForeignInBatch =>
       /\ last.out[1] # Null
       /\ doc[last.peer] = CsApply(last.out[1], last.doc)
       /\ last.out[2] = ForeignEffects(LastBatch, 1, ClientID(last.peer),
                                       collab[last.peer].unconfirmed)
       /\ last.out[3] = Tags(FALSE, TRUE, FALSE)
       /\ GetSyncedVersion(collab[last.peer]) = last.log
  /\ Transacted =>
       /\ last.out[3].addToHistory
       /\ ~last.out[3].remote
       /\ last.out[3].filter

\* C15 happens: a receive delivered foreign text and a foreign mark to a peer
\* with an unconfirmed update, in one tagged transaction.
TaggedRemoteCase ==
  /\ Received
  /\ ForeignInBatch
  /\ Inserted(last.out[1]) # <<>>
  /\ last.out[2] # <<>>
  /\ last.out[3].remote
  /\ collab[last.peer].unconfirmed # <<>>


\* C16: no step changes the client ID of the state it acts on, be it a local
\* edit, a receive or a reconfiguration with the same extension; and a state
\* whose extension was made without a clientID has the ID the extension
\* generated when it was made (a configured clientID is the state's ID).
IdentityStable ==
  /\ last.op # "init" => GetClientID(facet[last.peer]) = last.id
  /\ \A p \in Peers :
       GetClientID(facet[p])
         = IF ext[p].clientID = NoID THEN ext[p].generatedID ELSE ext[p].clientID

\* C16 happens: a peer made with collab() has edited, received a foreign
\* update and then reconfigured its state.
IdentityStableCase ==
  /\ last.op = "reconfigure"
  /\ ext[last.peer].clientID = NoID
  /\ GetClientID(facet[last.peer]) \in GeneratedIDs(last.peer)
  /\ emitted[last.peer] > 0
  /\ folded[last.peer] > 0
  /\ \E k \in 1..Len(updates) : updates[k].clientID # last.id


\* rebaseUpdates(us, over): `changes` and `skip` after k turns of its loop.
SkipAt(us, over, k) ==
  RebaseSkip(us, SubSeq(over, 1, k), 1, [changes |-> Null, skip |-> 0])

\* In the state st of that loop, the entry o of `over` has the client ID of
\* us[skip].
Raced(us, o, st) == st.skip < Len(us) /\ us[st.skip + 1].clientID = o.clientID

\* `changes` mapped over the change script x, when it is set.
MappedOver(changes, x) == IF changes = Null THEN Null ELSE CsMapDesc(changes, x, TRUE)

\* The submission and the accepted updates of the rebaseUpdates call of the
\* last send.
LastSubmitted == SendableUpdates(last.collab)

\* C17 as stated: when o, an entry of `over`, has the client ID of
\* us[skip], `changes` is mapped over the change script of o, skip advances
\* by one and o is not composed into `changes`.
SkipMapsOverAccepted ==
  last.op = "send" =>
    \A k \in 1..Len(LastBatch) :
      \E st \in {SkipAt(LastSubmitted, LastBatch, k - 1)} :
        Raced(LastSubmitted, LastBatch[k], st) =>
          SkipAt(LastSubmitted, LastBatch, k)
            = [changes |-> MappedOver(st.changes, LastBatch[k].changes),
               skip |-> st.skip + 1]

\* C17, amended: when o, an entry of `over`, has the client ID of us[skip],
\* `changes` is mapped over the change script of us[skip], the submitted
\* copy of that update, skip advances by one and o is not composed into
\* `changes`.
SkipMapsOverSubmitted ==
  last.op = "send" =>
    \A k \in 1..Len(LastBatch) :
      \E st \in {SkipAt(LastSubmitted, LastBatch, k - 1)} :
        Raced(LastSubmitted, LastBatch[k], st) =>
          SkipAt(LastSubmitted, LastBatch, k)
            = [changes |-> MappedOver(st.changes, LastSubmitted[st.skip + 1].changes),
               skip |-> st.skip + 1]

\* C17 happens: a send resubmitted an update whose accepted copy had been
\* rebased, behind a foreign update that the skipped update moved.
SkipMapsOverSubmittedCase ==
  /\ Sent
  /\ \E k \in 1..Len(LastBatch) :
       \E st \in {SkipAt(LastSubmitted, LastBatch, k - 1)} :
         /\ Raced(LastSubmitted, LastBatch[k], st)
         /\ st.changes # Null
         /\ LastBatch[k].changes # LastSubmitted[st.skip + 1].changes
         /\ SkipAt(LastSubmitted, LastBatch, k).changes # st.changes


\* receiveUpdates rebasing us over the foreign script f: the running script
\* when us[k] is reached, that is f mapped over the change scripts of the
\* updates before us[k].
RECURSIVE Running(_, _, _)
Running(us, k, f) ==
  IF k = 1 THEN f ELSE CsMap(Running(us, k - 1, f), us[k - 1].changes, TRUE)

\* The same for rebaseUpdates, whose running script is a change description.
RECURSIVE RunningDesc(_, _, _)
RunningDesc(us, k, f) ==
  IF k = 1 THEN f ELSE CsMapDesc(RunningDesc(us, k - 1, f), us[k - 1].changes, TRUE)

\* What the loop of the last receive over its batch left.
LastLoop ==
  ReceiveLoop(LastBatch, last.collab.unconfirmed, 1,
              [changes |-> Null, effects |-> <<>>, own |-> 0])

\* The unconfirmed updates the last receive had to rebase.
LastRemaining ==
  SubSeq(last.collab.unconfirmed, LastLoop.own + 1, Len(last.collab.unconfirmed))

\* What the loop of the last send's rebaseUpdates over `over` left, and the
\* updates it had to rebase.
LastSkipped == SkipAt(LastSubmitted, LastBatch, Len(LastBatch))

LastResubmitted == SubSeq(LastSubmitted, LastSkipped.skip + 1, Len(LastSubmitted))

\* The effects of the rebased updates vs are those of us, the k-th mapped
\* over the running script as it is d updates further on (d = 0: when the
\* change script of us[k] is mapped over it; d = 1: after it was in turn
\* mapped over the change script of us[k]).
EffectsMappedAt(vs, us, f, d) ==
  \A k \in 1..Len(us) : vs[k].effects = MapEffects(us[k].effects, Running(us, k + d, f))

EffectsMappedAtDesc(vs, us, f, d) ==
  \A k \in 1..Len(us) : vs[k].effects = MapEffects(us[k].effects, RunningDesc(us, k + d, f))

\* C18 as stated: the shared effects of a rebased update are mapped over the
\* running script as it was when the update's change script was mapped
\* over it.
EffectsOverRebasingScript ==
  /\ Received /\ LastLoop.changes # Null =>
       EffectsMappedAt(collab[last.peer].unconfirmed, LastRemaining, LastLoop.changes, 0)
  /\ Sent /\ LastBatch # <<>> /\ LastSkipped.changes # Null =>
       EffectsMappedAtDesc(last.out, LastResubmitted, LastSkipped.changes, 0)

\* C18, amended: the shared effects of a rebased update are mapped over the
\* running script after that script was mapped over the update's change
\* script, which is the script the next update is rebased over.
EffectsOverMappedScript ==
  /\ Received /\ LastLoop.changes # Null =>
       EffectsMappedAt(collab[last.peer].unconfirmed, LastRemaining, LastLoop.changes, 1)
  /\ Sent /\ LastBatch # <<>> /\ LastSkipped.changes # Null =>
       EffectsMappedAtDesc(last.out, LastResubmitted, LastSkipped.changes, 1)

\* C18 happens: a receive rebased an update that changes text and shares a
\* mark, and the mark lies elsewhere than the foreign script as it was would
\* have put it.
EffectsOverMappedScriptCase ==
  /\ Received
  /\ LastLoop.changes # Null
  /\ \E k \in 1..Len(LastRemaining) :
       /\ ~CsEmpty(LastRemaining[k].changes)
       /\ collab[last.peer].unconfirmed[k].effects # <<>>
       /\ collab[last.peer].unconfirmed[k].effects # LastRemaining[k].effects
       /\ collab[last.peer].unconfirmed[k].effects
            # MapEffects(LastRemaining[k].effects, Running(LastRemaining, k, LastLoop.changes))


\* The document the log gives up to peer p's version.
Confirmed(p) == ApplyUpdates(SubSeq(updates, 1, GetSyncedVersion(collab[p])), 1, StartDoc)

\* C19: the document of a participant is the start document with the log up
\* to its version applied, followed by the change scripts of its unconfirmed
\* updates, each applying to the document the one before it leaves; and the
\* changes of a receiveUpdates transaction apply to the document the
\* participant has, unconfirmed edits included, and no receive throws.
DocumentInvariant ==
  /\ \A p \in Peers :
       /\ Confirmed(p) # DocErr
       /\ LengthsFit(collab[p].unconfirmed, 1, Len(Confirmed(p)))
       /\ doc[p] = ApplyUpdates(collab[p].unconfirmed, 1, Confirmed(p))
  /\ last.op = "receive" =>
       /\ ~threw
       /\ last.out[1] # Null =>
            /\ CsLength(last.out[1]) = Len(last.doc)
            /\ doc[last.peer] = CsApply(last.out[1], last.doc)

\* C19 happens: a receive of an own echo and a foreign update applied the
\* foreign text to a document that holds an unconfirmed edit, and rebased
\* that edit.
DocumentInvariantCase ==
  /\ Received
  /\ Inserted(last.out[1]) # <<>>
  /\ LastEchoes > 0
  /\ Len(collab[last.peer].unconfirmed) >= 1
  /\ \E k \in 1..Len(collab[last.peer].unconfirmed) :
       CsLength(collab[last.peer].unconfirmed[k].changes)
         # CsLength(last.collab.unconfirmed[k + LastEchoes].changes)


\* The number of peer p's updates among the log entries it has received.
Echoed(p) == Len(ByClient(SubSeq(updates, 1, GetSyncedVersion(collab[p])), ClientID(p)))

\* The log entry o is a copy of the local update u: it inserts the same text
\* and shares marks with the same ids.
CopyOf(o, u) ==
  /\ o.clientID = u.clientID
  /\ Inserted(o.changes) = Inserted(u.changes)
  /\ Len(o.effects) <= Len(u.effects)
  /\ \A k \in 1..Len(o.effects) : o.effects[k][3] = u.origin

\* receiveUpdates takes the k-th entry of the log tail of peer p for an own
\* echo.
TakenForEcho(p, k) ==
  \E st \in {ReceiveLoop(SubSeq(LogTail(p), 1, k - 1), collab[p].unconfirmed, 1,
                         [changes |-> Null, effects |-> <<>>, own |-> 0])} :
    /\ st.own < Len(collab[p].unconfirmed)
    /\ collab[p].unconfirmed[st.own + 1].clientID = LogTail(p)[k].clientID

\* C20: the unconfirmed updates of a participant are the updates it emitted
\* and has not yet received back, in emission order; the entries of its log
\* tail that carry its client ID are no more than its unconfirmed updates
\* and are copies, in order, of the first of them; so receiveUpdates takes
\* an entry for an own echo exactly when it carries the participant's
\* client ID.
PendingEchoes ==
  \A p \in Peers :
    /\ Origins(collab[p].unconfirmed) = SubSeq(Emission(p), Echoed(p) + 1, emitted[p])
    /\ Len(ByClient(LogTail(p), ClientID(p))) <= Len(collab[p].unconfirmed)
    /\ \A k \in 1..Len(ByClient(LogTail(p), ClientID(p))) :
         CopyOf(ByClient(LogTail(p), ClientID(p))[k], collab[p].unconfirmed[k])
    /\ \A k \in 1..Len(LogTail(p)) :
         TakenForEcho(p, k) <=> LogTail(p)[k].clientID = ClientID(p)

\* C20 happens: behind a peer's version the log holds a foreign update and a
\* copy of its first unconfirmed update, rebased when it was accepted, and
\* the peer has made another update since.
PendingEchoesCase ==
  \E p \in Peers :
    /\ Len(collab[p].unconfirmed) = 2
    /\ Len(ByClient(LogTail(p), ClientID(p))) = 1
    /\ Len(LogTail(p)) = 2
    /\ LogTail(p)[1].clientID # ClientID(p)
    /\ LogTail(p)[2].changes # collab[p].unconfirmed[1].changes
    /\ Inserted(collab[p].unconfirmed[1].changes) # <<>>


\* C21: rebaseUpdates returns the updates it does not skip in the order it
\* was given them, each with its client ID and still inserting its text; so
\* the entries of the log that carry a participant's client ID are always
\* its transactions in the order it made them, however the sends of the
\* participants interleave.
LogOrder ==
  /\ Sent /\ LastBatch # <<>> =>
       /\ Len(last.out) = Len(LastResubmitted)
       /\ \A k \in 1..Len(last.out) :
            /\ last.out[k].clientID = LastResubmitted[k].clientID
            /\ Inserted(last.out[k].changes) = Inserted(LastResubmitted[k].changes)
  /\ \A p \in Peers :
       /\ Len(ByClient(updates, ClientID(p))) <= emitted[p]
       /\ \A k \in 1..Len(ByClient(updates, ClientID(p))) :
            Inserted(ByClient(updates, ClientID(p))[k].changes) = TextOf(Origin(p, k))

\* C21 happens: a send had two inserting updates rebased over a foreign
\* update, behind an update of the sender that was already in the log.
LogOrderCase ==
  /\ Sent
  /\ Len(last.out) = 2
  /\ \E k \in 1..Len(LastBatch) : LastBatch[k].clientID # ClientID(last.peer)
  /\ \A k \in 1..2 :
       /\ Inserted(last.out[k].changes) # <<>>
       /\ last.out[k].changes # LastResubmitted[k].changes


\* C22: applying a receiveUpdates transaction leaves the participant with
\* exactly the sync state that receiveUpdates computed: nothing is appended
\* to `unconfirmed`, whatever document changes and effects the transaction
\* carries, so every update waiting afterwards was waiting before.
ReceiveReplaces ==
  Received =>
    /\ collab[last.peer] = ReceiveUpdates(last.collab, last.id, LastBatch).collab
    /\ Len(collab[last.peer].unconfirmed) <= Len(last.collab.unconfirmed)
    /\ \A k \in 1..Len(collab[last.peer].unconfirmed) :
         \E j \in 1..Len(last.collab.unconfirmed) :
           collab[last.peer].unconfirmed[k].origin = last.collab.unconfirmed[j].origin

\* C22 happens: a received transaction changed the document and carried an
\* effect, while an update of the receiver was left waiting.
ReceiveReplacesCase ==
  /\ Received
  /\ last.out[1] # Null
  /\ ~CsEmpty(last.out[1])
  /\ last.out[2] # <<>>
  /\ collab[last.peer].unconfirmed # <<>>


\* The ids of the marks of an effect list, in order.
EffectIds(effects) == [k \in 1..Len(effects) |-> effects[k][3]]

\* The ids of the marks the updates us carry.
IdsOf(us) ==
  UNION {{us[k].effects[j][3] : j \in 1..Len(us[k].effects)} : k \in 1..Len(us)}

\* The updates us without the marks whose id is in dropped.
WithoutEffects(us, dropped) ==
  [k \in 1..Len(us) |->
     [us[k] EXCEPT !.effects = SelectSeq(@, LAMBDA e : e[3] \notin dropped)]]

\* The effects of the updates batch[j..] that do not carry the client ID id,
\* as the updates carry them.
RECURSIVE RawForeign(_, _, _)
RawForeign(batch, j, id) ==
  IF j > Len(batch) THEN <<>>
  ELSE (IF batch[j].clientID = id THEN <<>> ELSE batch[j].effects)
       \o RawForeign(batch, j + 1, id)

\* The marks the last receive annihilated: those a foreign update of the
\* batch or a waiting local update carried, that neither the transaction
\* nor the updates still waiting carry, own echoes apart.
Annihilated ==
  (IdsOf(LastBatch) \cup IdsOf(last.collab.unconfirmed))
    \ ({last.out[2][k][3] : k \in 1..Len(last.out[2])}
         \cup IdsOf(collab[last.peer].unconfirmed)
         \cup IdsOf(ByClient(LastBatch, last.id)))

\* The last receive gave what receiveUpdates gives when no update carries
\* the marks in dropped.
AsIfNeverPresent(dropped) ==
  \E tr \in {ReceiveUpdates(CollabState(GetSyncedVersion(last.collab),
                                        WithoutEffects(last.collab.unconfirmed, dropped)),
                            last.id, WithoutEffects(LastBatch, dropped))} :
    /\ tr.collab.version = GetSyncedVersion(collab[last.peer])
    /\ tr.collab.unconfirmed = collab[last.peer].unconfirmed
    /\ tr.changes = last.out[1]
    /\ tr.effects = last.out[2]

\* C23: a shared effect whose mapping gives none is dropped without an
\* error, and alone: a receive never throws, the transaction carries the
\* other foreign effects in the order the batch had them, and its version,
\* waiting updates, document changes and effects are those of a batch and a
\* queue that never carried the dropped effect.
AnnihilationSilent ==
  /\ last.op = "receive" => ~threw
  /\ Received =>
       /\ last.out[1] # Null =>
            EffectIds(last.out[2])
              = EffectIds(SelectSeq(RawForeign(LastBatch, 1, last.id),
                                    LAMBDA e : e[3] \notin Annihilated))
       /\ AsIfNeverPresent(Annihilated)

\* C23 happens: a receive dropped a foreign mark that a later update of the
\* batch annihilated, and delivered another.
AnnihilationSilentCase ==
  /\ Received
  /\ last.out[2] # <<>>
  /\ \E k \in 1..Len(LastBatch) :
       /\ LastBatch[k].clientID # last.id
       /\ LastBatch[k].effects # <<>>
       /\ LastBatch[k].effects[1][3] \in Annihilated


\* The places of the batch, from k on, that receiveUpdates takes for echoes
\* of the receiver's own updates, own of which were already taken.
RECURSIVE EchoAt(_, _, _, _)
EchoAt(batch, k, unconfirmed, own) ==
  IF k > Len(batch) THEN {}
  ELSE IF own < Len(unconfirmed) /\ unconfirmed[own + 1].clientID = batch[k].clientID
    THEN {k} \cup EchoAt(batch, k + 1, unconfirmed, own + 1)
    ELSE EchoAt(batch, k + 1, unconfirmed, own)

\* The effect e of the k-th update of the last batch is in the transaction,
\* moved over the later updates of the batch and over the updates still
\* waiting, unless one of those mappings gave none.
Delivered(e, k) ==
  \E m \in {OverUnconfirmed(CarriedOver(<<e>>, LastBatch, k + 1),
                            collab[last.peer].unconfirmed)} :
    \/ m = <<>>
    \/ m # EffErr /\ \E i \in 1..Len(last.out[2]) : last.out[2][i] = m[1]

\* C24: of the batch of a receive, every effect of an update taken as
\* foreign is in the transaction, mapped, unless a mapping annihilated it;
\* no effect of an update taken as an own echo is in it; and the transaction
\* is the metadata-only one only when the loop over the batch gathered no
\* effects.
NoEffectLost ==
  Received =>
    /\ \A k \in 1..Len(LastBatch) :
         \A j \in 1..Len(LastBatch[k].effects) :
           IF k \in EchoAt(LastBatch, 1, last.collab.unconfirmed, 0)
             THEN \A i \in 1..Len(last.out[2]) :
                    last.out[2][i][3] # LastBatch[k].effects[j][3]
             ELSE Delivered(LastBatch[k].effects[j], k)
    /\ last.out[1] = Null => LastLoop.effects = <<>>

\* C24 happens: a receive took a batch with an own echo that carried a mark
\* and a foreign update that carried one, and delivered the foreign mark at
\* other positions than the batch had it.
NoEffectLostCase ==
  /\ Received
  /\ \E k \in EchoAt(LastBatch, 1, last.collab.unconfirmed, 0) :
       LastBatch[k].effects # <<>>
  /\ \E k \in 1..Len(LastBatch) :
       /\ k \notin EchoAt(LastBatch, 1, last.collab.unconfirmed, 0)
       /\ LastBatch[k].effects # <<>>
       /\ \E i \in 1..Len(last.out[2]) :
            /\ last.out[2][i][3] = LastBatch[k].effects[1][3]
            /\ last.out[2][i] # LastBatch[k].effects[1]


\* Every participant has nothing waiting and is at the end of the log.
Quiet ==
  \A p \in Peers :
    /\ SendableUpdates(collab[p]) = <<>>
    /\ GetSyncedVersion(collab[p]) = Len(updates)

\* C25: when every participant keeps sending and receiving, then, once the
\* local editing has stopped, there comes a time from which every
\* participant's `unconfirmed` is empty and its version is the length of the
\* log; and in such a state a send appends nothing and a receive changes
\* nothing: neither has anything to do.
Quiescence ==
  /\ <>[]Quiet
  /\ [](Quiet => \A p \in Peers : ~ENABLED (Send(p) \/ Receive(p)))

\* C25 happens: all transactions were made, the log holds updates of both
\* participants, one of them rebased, and every participant has nothing
\* waiting and is at the end of the log.
QuiescenceCase ==
  /\ Quiet
  /\ TotalEmitted = MaxEdits
  /\ Len(updates) = MaxEdits
  /\ \A p \in Peers : ByClient(updates, ClientID(p)) # <<>>
  /\ \E k \in 1..Len(updates) : updates[k].origin = NoOrigin


\* The changes and the effects of each of the updates us.
Content(us) == [k \in 1..Len(us) |-> <<us[k].changes, us[k].effects>>]

\* C26: for a batch that has n own echoes first and only foreign updates
\* after them, receiveUpdates(state, updates) gives the version, the changes
\* and effects of the updates left in `unconfirmed`, and the document changes
\* and effects that the earlier receiveUpdates(state, updates, n) gives.
OldAgrees ==
  last.op = "receive old" =>
    \E tr \in {ReceiveUpdates(last.collab, last.id, LastBatch)} :
      /\ GetSyncedVersion(tr.collab) = GetSyncedVersion(last.out[3])
      /\ Content(tr.collab.unconfirmed) = Content(last.out[3].unconfirmed)
      /\ tr.changes = last.out[1]
      /\ tr.effects = last.out[2]

\* C26 happens: the earlier receiveUpdates was called for a batch with an
\* own echo and then a foreign update that carries a mark, on a state that
\* has another update waiting, and gave a transaction with an effect.
OldAgreesCase ==
  /\ last.op = "receive old"
  /\ LastBatch[1].clientID = last.id
  /\ \E k \in 2..Len(LastBatch) : LastBatch[k].effects # <<>>
  /\ last.out[3].unconfirmed # <<>>
  /\ last.out[1] # Null
  /\ last.out[2] # <<>>

=============================================================================
